---- MODULE Spec2Model ----
(***************************************************************************)
(* A model of one-sided-ks.c: thresholds for one-sided confidence          *)
(* sequences on the Kolmogorov-Smirnov statistic.                          *)
(*                                                                         *)
(* The library computes on uint64_t and on IEEE-754 binary64 values.  TLC  *)
(* integers are 32 bits wide, so a 64-bit word (and every wider            *)
(* intermediate of the arithmetic) is a natural number written as the      *)
(* sequence of its base-2^15 digits, least significant first, without      *)
(* leading zero digits: 0 is << >>, 2^15 is <<0, 1>>.  A double is its      *)
(* 64-bit pattern, exactly what memcpy(&bits, &x, 8) reads.                *)
(***************************************************************************)
EXTENDS Integers, Sequences, FiniteSets, TLC

VARIABLES
    codegen,    \* the machine code the compiler emitted for lines 150 and 164:
                \* add and mul are the operand (1 or 2) whose NaN the sum
                \* 2 * log(x) + log_b and the product xp1 * (...) return when
                \* both operands are NaNs (the destination register of addsd
                \* and mulsd), contract whether the sum is one fma
    libm_err,   \* the libm the program is linked with: << >> is that of the
                \* build, glibc 2.36; with <<a, b>>, log(x) is off by less
                \* than |a| ULPs when x's exponent field is even, |b| when
                \* it is odd, upwards if positive, downwards if negative
    validity,   \* the predicate find_min_count searches with: << >> is
                \* one_sided_ks_min_count_valid; a sequence v of Booleans is
                \* the predicate that holds of m iff m <= Len(v) and v[m]
    constants,  \* the five exported constants as the build stored them: the
                \* bit patterns of pair_le, pair_eq, fixed_le, fixed_eq, class
    pc,         \* "idle", "check" (inside check_constants), "done" (the call
                \* returned ret), "aborted" (an assertion failed)
    op,         \* the function called
    arg_n, arg_min_count, arg_log_eps, arg_delta,   \* its arguments
    arg_target, arg_up,     \* invert_threshold: target and up
    arg_x,      \* float_bits, bits_float, next, prev: the argument
    index,      \* check_constants: index
    loop_i,     \* find_min_count, invert_threshold: i
    low, high,  \* find_min_count, invert_threshold: low and high
    ret         \* check_constants: ret; at "done", the value returned

\* The arithmetic primitives below are reached through one recursive operator,
\* Apply, defined after them: X(args) is Apply("X", <<args>>), which is
\* XDef(args).  The indirection lets TLC expand a nested arithmetic expression
\* once per primitive instead of once per occurrence.
RECURSIVE Apply(_, _)

(***************************************************************************)
(* Natural numbers of any size (digit sequences).                          *)
(***************************************************************************)
Base == 2^15

\* e, once v has a value: TLC evaluates an operator's arguments when they are
\* first used, which for a loop's accumulator is at the loop's end, inside all
\* of its iterations
Eval(v, e) == IF v = v THEN e ELSE e

\* the largest element of a non-empty set of integers
SetMax(S) == CHOOSE m \in S : \A j \in S : j <= m

\* a without its leading zero digits
BNorm(a) ==
    LET nz == {i \in 1..Len(a) : a[i] # 0}
    IN  IF a = << >> THEN a
        ELSE IF a[Len(a)] # 0 THEN a
        ELSE IF nz = {} THEN << >> ELSE SubSeq(a, 1, SetMax(nz))

\* the digits of an integer 0 <= k < 2^31
BOfInt(k) ==
    IF k = 0 THEN << >>
    ELSE IF k < Base THEN <<k>>
    ELSE IF k \div Base < Base THEN <<k % Base, k \div Base>>
    ELSE <<k % Base, (k \div Base) % Base, k \div (Base * Base)>>

BDigit(a, i) == IF i <= Len(a) THEN a[i] ELSE 0

\* -1, 0, 1 as a < b, a = b, a > b: by length, then by the most significant
\* digit that differs
BCmp(a, b) ==
    IF Len(a) < Len(b) THEN -1
    ELSE IF Len(a) > Len(b) THEN 1
    ELSE IF a = << >> THEN 0
    ELSE IF a[Len(a)] < b[Len(a)] THEN -1
    ELSE IF a[Len(a)] > b[Len(a)] THEN 1
    ELSE LET d == {i \in 1..Len(a) : a[i] # b[i]}
         IN  IF d = {} THEN 0 ELSE IF a[SetMax(d)] < b[SetMax(d)] THEN -1 ELSE 1

BLt(a, b) == BCmp(a, b) < 0
BLe(a, b) == BCmp(a, b) <= 0

\* Whether digit i receives a carry, where s holds the digit sums and a digit
\* overflows from hi on: the digit below overflows, or is hi - 1 and receives
\* a carry itself, that is some lower digit j overflows and every digit
\* between j and i is hi - 1.
Carry(s, i, hi) ==
    /\ i > 1
    /\ \/ s[i - 1] >= hi
       \/ /\ s[i - 1] = hi - 1
          /\ \E j \in 1..(i - 2) :
                 s[j] >= hi /\ \A k \in (j + 1)..(i - 2) : s[k] = hi - 1

\* a + b
BAdd(a, b) ==
    LET n == IF Len(a) > Len(b) THEN Len(a) ELSE Len(b)
        s == [i \in 1..n |-> BDigit(a, i) + BDigit(b, i)] \o << >>
    IN  IF b = << >> THEN a
        ELSE IF a = << >> THEN b
        ELSE [i \in 1..n |-> (s[i] + (IF Carry(s, i, Base) THEN 1 ELSE 0)) % Base]
                 \o (IF Carry(s, n + 1, Base) THEN <<1>> ELSE << >>)

\* a - b for a >= b: the borrows are the carries of the digit differences
\* b[i] - a[i], which overflow from 1 on
BSub(a, b) ==
    LET d == [i \in 1..Len(a) |-> BDigit(b, i) - a[i]] \o << >>
    IN  IF b = << >> THEN a
        ELSE BNorm([i \in 1..Len(a) |->
                       (Base - d[i] - (IF Carry(d, i, 1) THEN 1 ELSE 0)) % Base] \o << >>)

\* a * k for 0 <= k <= 2^15: the low halves of the digit products plus their
\* high halves one digit up
BMulSmall(a, k) ==
    IF k = 0 \/ a = << >> THEN << >>
    ELSE IF k = 1 THEN a
    ELSE BAdd(BNorm([i \in 1..Len(a) |-> (a[i] * k) % Base] \o << >>),
              BNorm([i \in 1..(Len(a) + 1) |->
                        IF i = 1 THEN 0 ELSE (a[i - 1] * k) \div Base] \o << >>))

\* <<a div k, a mod k>> for 0 < k <= 2^15
RECURSIVE BDivSmallFrom(_, _, _, _, _)
BDivSmallFrom(a, k, i, rem, acc) ==
    IF i = 0 THEN <<BNorm(acc), rem>>
    ELSE LET s == rem * Base + a[i]
         IN  BDivSmallFrom(a, k, i - 1, s % k, [acc EXCEPT ![i] = s \div k])

BDivSmall(a, k) == BDivSmallFrom(a, k, Len(a), 0, a)

\* a * Base^d
BShlDigits(a, d) ==
    IF a = << >> \/ d = 0 THEN a ELSE [i \in 1..d |-> 0] \o a

\* a * 2^k
BShl(a, k) == BShlDigits(BMulSmall(a, 2^(k % 15)), k \div 15)

\* floor(a / 2^k): whole digits are dropped, then each digit takes the low bits
\* of the digit above
BShr(a, k) ==
    LET d == k \div 15
        r == k % 15
        t == IF d >= Len(a) THEN << >> ELSE SubSeq(a, d + 1, Len(a))
    IN  IF r = 0 THEN t
        ELSE BNorm([i \in 1..Len(t) |->
                       (t[i] \div 2^r) + (BDigit(t, i + 1) % 2^r) * 2^(15 - r)])

\* a mod 2^k
BLow(a, k) ==
    LET d == k \div 15
        r == k % 15
    IN  IF d >= Len(a) THEN a
        ELSE BNorm(SubSeq(a, 1, d) \o (IF r = 0 THEN << >> ELSE <<a[d + 1] % 2^r>>))

\* number of significant bits of a digit
IntBitLen(k) == CHOOSE n \in 0..15 : k < 2^n /\ (n = 0 \/ k >= 2^(n - 1))

\* number of significant bits of a
BBitLen(a) == IF a = << >> THEN 0 ELSE 15 * (Len(a) - 1) + IntBitLen(a[Len(a)])

\* a times the digits lo..hi of b in place: one row per digit, the rows added
\* by halves
RECURSIVE BMulFrom(_, _, _, _)
BMulFrom(a, b, lo, hi) ==
    IF lo = hi THEN BShlDigits(BMulSmall(a, b[lo]), lo - 1)
    ELSE BAdd(BMulFrom(a, b, lo, (lo + hi) \div 2),
              BMulFrom(a, b, (lo + hi) \div 2 + 1, hi))

BMul(a, b) == IF a = << >> \/ b = << >> THEN << >> ELSE BMulFrom(a, b, 1, Len(b))

\* The largest q with q * b <= r, given an estimate est >= q (long division's
\* correction of a trial quotient digit).
RECURSIVE BTrialDigit(_, _, _)
BTrialDigit(r, b, est) ==
    IF BLe(BMulSmall(b, est), r) THEN est ELSE BTrialDigit(r, b, est - 1)

\* One step of long division on st = <<quotient digits, remainder>>: the
\* next digit ai of the dividend joins the remainder r, and the quotient
\* digit q of r by b is taken out.  r < b * Base and the leading digit of b
\* is at least Base / 2, so the trial digit, from the two leading digits of
\* r, is at most 2 too large.
BDivDigit(st, ai, b) ==
    LET r   == BAdd(BShlDigits(st[2], 1), BOfInt(ai))
        n   == Len(b)
        top == IF Len(r) > n THEN r[n + 1] * Base + r[n]
               ELSE IF Len(r) = n THEN r[n] ELSE 0
        est == IF top \div b[n] >= Base THEN Base - 1 ELSE top \div b[n]
        q   == BTrialDigit(r, b, est)
    IN  << <<q>> \o st[1], BSub(r, BMulSmall(b, q)) >>

\* Long division of a by b, digit i of a downwards
RECURSIVE BDivModFrom(_, _, _, _)
BDivModFrom(a, b, i, st) ==
    IF Eval(st, i = 0) THEN <<BNorm(st[1]), st[2]>>
    ELSE BDivModFrom(a, b, i - 1, BDivDigit(st, a[i], b))

\* <<floor(a / b), a mod b>> for b > 0
BDivMod(a, b) == Apply("BDivMod", <<a, b>>)

\* the division starts below the Len(b) - 1 leading digits of a, whose
\* quotient digits are 0
BDivModDef(a, b) ==
    LET sh == 15 - IntBitLen(b[Len(b)])
        n  == BShl(a, sh)
        d  == BShl(b, sh)
        qr == BDivModFrom(n, d, Len(n) - Len(d) + 1,
                          << << >>, SubSeq(n, Len(n) - Len(d) + 2, Len(n)) >>)
    IN  IF Len(a) < Len(b) THEN << << >>, a>> ELSE <<qr[1], BShr(qr[2], sh)>>

\* one step of Newton's iteration for floor(sqrt(a)) from s
BNewton(a, s) == BDivSmall(BAdd(s, BDivMod(a, s)[1]), 2)[1]

\* Newton's iteration from an estimate s >= floor(sqrt(a)) and its successor
\* t, down to the first estimate that its successor does not lower
RECURSIVE BSqrtFrom(_, _, _)
BSqrtFrom(a, s, t) == IF BLt(t, s) THEN BSqrtFrom(a, t, BNewton(a, t)) ELSE s

\* <<floor(sqrt(a)), a - floor(sqrt(a))^2>>
BSqrt(a) ==
    IF a = << >> THEN << << >>, << >> >>
    ELSE LET s0 == BShl(<<1>>, (BBitLen(a) + 1) \div 2)
             s  == BSqrtFrom(a, s0, BNewton(a, s0))
         IN  <<s, BSub(a, BMul(s, s))>>

\* the value of a decimal literal, from its digits, most significant first
RECURSIVE BOfDecimalFrom(_, _, _)
BOfDecimalFrom(digits, i, acc) ==
    IF i > Len(digits) THEN acc
    ELSE BOfDecimalFrom(digits, i + 1, BAdd(BMulSmall(acc, 10), BOfInt(digits[i])))

BOfDecimal(digits) == BOfDecimalFrom(digits, 1, << >>)

RECURSIVE BPow10(_)
BPow10(k) == IF k = 0 THEN <<1>> ELSE BMulSmall(BPow10(k - 1), 10)

(***************************************************************************)
(* uint64_t: 64-bit words, arithmetic modulo 2^64.                         *)
(***************************************************************************)
Two63 == <<0, 0, 0, 0, 2^3>>

\* the word with the 16-bit quarters w3 w2 w1 w0, most significant first
W64(w3, w2, w1, w0) ==
    BNorm(<<w0 % 2^15,
            (w0 \div 2^15) + 2 * (w1 % 2^14),
            (w1 \div 2^14) + 4 * (w2 % 2^13),
            (w2 \div 2^13) + 8 * (w3 % 2^12),
            w3 \div 2^12>>)

UINT64_MAX == W64(\HFFFF, \HFFFF, \HFFFF, \HFFFF)

UAdd(a, b) == BLow(BAdd(a, b), 64)
USub(a, b) == IF BLe(b, a) THEN BSub(a, b) ELSE BSub(BAdd(a, <<0, 0, 0, 0, 2^4>>), b)
\* -a as the complement of a, without the + 1
UNeg_complement(a) == USub(UINT64_MAX, a)

UNeg(a) == USub(<< >>, a)
UShl(a, k) == BLow(BShl(a, k), 64)

RECURSIVE IntXor(_, _)
IntXor(a, b) ==
    IF b = 0 THEN a
    ELSE IF a = 0 THEN b
    ELSE IF b = Base - 1 THEN Base - 1 - a
    ELSE ((a + b) % 2) + 2 * IntXor(a \div 2, b \div 2)

UXor(a, b) ==
    BNorm([i \in 1..(IF Len(a) > Len(b) THEN Len(a) ELSE Len(b)) |->
              IntXor(BDigit(a, i), BDigit(b, i))])

\* (int64_t)bits >> 63, as a uint64_t: the sign bit in every position
SignMask(bits) == IF (BDigit(bits, 5) \div 2^3) % 2 = 1 THEN UINT64_MAX ELSE << >>

(***************************************************************************)
(* double: IEEE-754 binary64, round to nearest even.  A finite double with *)
(* sign s, biased exponent e and fraction f is (-1)^s * FMant * 2^FQ.      *)
(***************************************************************************)
FSign(x) == (BDigit(x, 5) \div 2^3) % 2
FMag(x) == BLow(x, 63)
\* bits 52..62: the high 8 bits of digit 4 and the low 3 bits of digit 5
FExp(x) == (BDigit(x, 4) \div 2^7) + 2^8 * (BDigit(x, 5) % 2^3)
FFrac(x) == BLow(x, 52)
FMant(x) == IF FExp(x) = 0 THEN FFrac(x) ELSE BAdd(FFrac(x), <<0, 0, 0, 2^7>>)
FQ(x) == (IF FExp(x) = 0 THEN 1 ELSE FExp(x)) - 1075

IsNaN(x) == FExp(x) = 2047 /\ FFrac(x) # << >>
IsInf(x) == FExp(x) = 2047 /\ FFrac(x) = << >>
IsZero(x) == FMag(x) = << >>

WithSign(s, mag) == IF s = 1 THEN BAdd(mag, Two63) ELSE mag

PosZero == << >>
PosInf == W64(\H7FF0, 0, 0, 0)
NegInf == W64(\HFFF0, 0, 0, 0)
\* the NaN an invalid operation produces
DefaultNaN == W64(\HFFF8, 0, 0, 0)
One == W64(\H3FF0, 0, 0, 0)
MinusOne == W64(\HBFF0, 0, 0, 0)
\* <float.h>
DBL_MAX == W64(\H7FEF, \HFFFF, \HFFFF, \HFFFF)
HUGE_VAL == PosInf

\* a NaN operand as the operation returns it
\* (bit 51, the quiet bit, is bit 6 of digit 4)
Quiet(x) == IF (BDigit(x, 4) \div 2^6) % 2 = 1 THEN x ELSE BAdd(x, BShl(<<1>>, 51))

FNeg(x) == WithSign(1 - FSign(x), FMag(x))

\* (-1)^s * (M + t) * 2^E rounded to a multiple of 2^q, q >= E - 1: kept is
\* floor(M / 2^(q - E)), c compares what is dropped with half of 2^q; the
\* result is infinite when its magnitude mag is beyond DBL_MAX
RoundAt(s, q, kept, c, sticky) ==
    LET mag == BAdd(BShl(BOfInt(q + 1074), 52),
                    IF c > 0 \/ (c = 0 /\ (sticky \/ BDigit(kept, 1) % 2 = 1))
                    THEN BAdd(kept, <<1>>) ELSE kept)
    IN  WithSign(s, IF BLe(PosInf, mag) THEN PosInf ELSE mag)

\* The double nearest to (-1)^s * (M + t) * 2^E, ties to even, where t is 0,
\* or, when sticky, some fraction 0 < t < 1 (M then has more than 53 bits).
\* sh is the number of low bits of M the double cannot hold.
RoundShift(s, M, E, sticky, sh) ==
    IF sh <= 0 THEN RoundAt(s, E + sh, BShl(M, -sh), -1, sticky)
    ELSE RoundAt(s, E + sh, BShr(M, sh), BCmp(BLow(M, sh), BShl(<<1>>, sh - 1)), sticky)

RoundPack(s, M, E, sticky) == Apply("RoundPack", <<s, M, E, sticky>>)

RoundPackDef(s, M, E, sticky) ==
    IF M = << >> THEN WithSign(s, << >>)
    ELSE IF E + BBitLen(M) - 53 > -1074 THEN RoundShift(s, M, E, sticky, BBitLen(M) - 53)
    ELSE RoundShift(s, M, E, sticky, -1074 - E)

\* (double)n for a uint64_t n
U64ToDouble(n) == RoundPack(0, n, 0, FALSE)

\* (-1)^sa * A * 2^q + (-1)^sb * B * 2^q rounded to a double, for A, B > 0
AddAligned(sa, A, sb, B, q) ==
    IF sa = sb THEN RoundPack(sa, BAdd(A, B), q, FALSE)
    ELSE IF A = B THEN PosZero
    ELSE IF BLt(B, A) THEN RoundPack(sa, BSub(A, B), q, FALSE)
    ELSE RoundPack(sb, BSub(B, A), q, FALSE)

\* a + b.  Of two NaN operands addsd returns the one in its destination
\* register, which the compiler chooses: codegen.add
FAdd(a, b) == Apply("FAdd", <<a, b>>)

FAddDef(a, b) ==
    IF IsNaN(a) /\ IsNaN(b) THEN Quiet(IF codegen.add = 1 THEN a ELSE b)
    ELSE IF IsNaN(a) THEN Quiet(a)
    ELSE IF IsNaN(b) THEN Quiet(b)
    ELSE IF IsInf(a) THEN (IF IsInf(b) /\ FSign(a) # FSign(b) THEN DefaultNaN ELSE a)
    ELSE IF IsInf(b) THEN b
    ELSE IF IsZero(a) /\ IsZero(b)
         THEN (IF FSign(a) = 1 /\ FSign(b) = 1 THEN a ELSE PosZero)
    ELSE IF IsZero(a) THEN b
    ELSE IF IsZero(b) THEN a
    ELSE LET d  == FQ(a) - FQ(b)
             qm == IF d < 0 THEN FQ(a) ELSE FQ(b)
         IN  IF d > 64 THEN a
             ELSE IF d < -64 THEN b
             ELSE AddAligned(FSign(a), BShl(FMant(a), FQ(a) - qm),
                             FSign(b), BShl(FMant(b), FQ(b) - qm), qm)

\* a - b.  Of two NaN operands every build returns the first
FSub(a, b) ==
    IF IsNaN(a) THEN Quiet(a)
    ELSE IF IsNaN(b) THEN Quiet(b)
    ELSE FAdd(a, FNeg(b))

\* a * b.  Of two NaN operands mulsd returns the one in its destination
\* register: codegen.mul
FMul(a, b) == Apply("FMul", <<a, b>>)

FMulDef(a, b) ==
    LET s == (FSign(a) + FSign(b)) % 2
    IN  IF IsNaN(a) /\ IsNaN(b) THEN Quiet(IF codegen.mul = 1 THEN a ELSE b)
        ELSE IF IsNaN(a) THEN Quiet(a)
        ELSE IF IsNaN(b) THEN Quiet(b)
        ELSE IF IsInf(a) \/ IsInf(b)
             THEN (IF IsZero(a) \/ IsZero(b) THEN DefaultNaN ELSE WithSign(s, PosInf))
        ELSE IF IsZero(a) \/ IsZero(b) THEN WithSign(s, PosZero)
        ELSE RoundPack(s, BMul(FMant(a), FMant(b)), FQ(a) + FQ(b), FALSE)

\* fma(a, b, c): a * b + c rounded once.  A NaN operand is returned quiet,
\* also when the product is invalid (of several, libm's fma and the fma
\* instruction return that of b, else of a, else of c; log passes none); a
\* product that is infinite, invalid or a zero is exact.
\* Of finite non-zero doubles, from
\* the exact product and c at a common exponent; a term more than 192 binary
\* places below the other only decides the direction of the rounding, and
\* one unit 64 places below stands for it.
FFma(a, b, c) == Apply("FFma", <<a, b, c>>)

FFmaDef(a, b, c) ==
    IF IsNaN(b) THEN Quiet(b)
    ELSE IF IsNaN(a) THEN Quiet(a)
    ELSE IF IsNaN(c) THEN Quiet(c)
    ELSE IF IsInf(a) \/ IsInf(b) \/ IsZero(a) \/ IsZero(b) THEN FAdd(FMul(a, b), c)
    ELSE IF IsInf(c) THEN c
    ELSE IF IsZero(c) THEN FMul(a, b)
    ELSE LET qp == FQ(a) + FQ(b)
             d  == qp - FQ(c)
             qm == IF d > 192 THEN qp - 64
                   ELSE IF d < -192 THEN FQ(c) - 64
                   ELSE IF d < 0 THEN qp ELSE FQ(c)
         IN  AddAligned((FSign(a) + FSign(b)) % 2,
                        IF d < -192 THEN <<1>>
                        ELSE BShl(BMul(FMant(a), FMant(b)), qp - qm),
                        FSign(c),
                        IF d > 192 THEN <<1>> ELSE BShl(FMant(c), FQ(c) - qm),
                        qm)

\* a / b; of two finite non-zero doubles, from a quotient of at least 56 bits
\* and whether the division left a remainder
FDiv(a, b) == Apply("FDiv", <<a, b>>)

FDivDef(a, b) ==
    LET s == (FSign(a) + FSign(b)) % 2
    IN  IF IsNaN(a) THEN Quiet(a)
        ELSE IF IsNaN(b) THEN Quiet(b)
        ELSE IF IsInf(a) THEN (IF IsInf(b) THEN DefaultNaN ELSE WithSign(s, PosInf))
        ELSE IF IsInf(b) THEN WithSign(s, PosZero)
        ELSE IF IsZero(b) THEN (IF IsZero(a) THEN DefaultNaN ELSE WithSign(s, PosInf))
        ELSE IF IsZero(a) THEN WithSign(s, PosZero)
        ELSE LET k  == 56 + BBitLen(FMant(b)) - BBitLen(FMant(a))
                 qr == BDivMod(BShl(FMant(a), k), FMant(b))
             IN  RoundPack(s, qr[1], FQ(a) - FQ(b) - k, qr[2] # << >>)

\* libm's sqrt, correctly rounded; of a finite positive double, from the root of
\* FMant * 2^k with FQ - k even and at least 55 result bits, and whether it is
\* inexact
sqrt(x) == Apply("sqrt", <<x>>)

sqrtDef(x) ==
    IF IsNaN(x) THEN Quiet(x)
    ELSE IF IsZero(x) THEN x
    ELSE IF FSign(x) = 1 THEN DefaultNaN
    ELSE IF IsInf(x) THEN x
    ELSE LET k0 == 112 - BBitLen(FMant(x))
             k  == k0 + ((FQ(x) - k0) % 2)
             sr == BSqrt(BShl(FMant(x), k))
         IN  RoundPack(0, sr[1], (FQ(x) - k) \div 2, sr[2] # << >>)

\* a < b, a == b, a <= b, a >= b on doubles (false when either is a NaN)
FLess(a, b) ==
    /\ ~IsNaN(a) /\ ~IsNaN(b)
    /\ ~(IsZero(a) /\ IsZero(b))
    /\ IF FSign(a) # FSign(b) THEN FSign(a) = 1
       ELSE IF FSign(a) = 0 THEN BLt(FMag(a), FMag(b))
       ELSE BLt(FMag(b), FMag(a))

FEq(a, b) == ~IsNaN(a) /\ ~IsNaN(b) /\ (a = b \/ (IsZero(a) /\ IsZero(b)))
FLeq(a, b) == FLess(a, b) \/ FEq(a, b)
FGeq(a, b) == ~IsNaN(a) /\ FLeq(b, a)

\* The double a compiler makes of the decimal literal (-1)^s * digits *
\* 10^-scale.
FOfDecimal(s, digits, scale) ==
    LET N  == BOfDecimal(digits)
        D  == BPow10(scale)
        k  == 56 + BBitLen(D)
        qr == BDivModDef(BShl(N, k), D)
    IN  RoundPackDef(s, qr[1], -k, qr[2] # << >>)

(***************************************************************************)
(* The natural logarithm, to 2^-90: what a libm's log approximates.        *)
(* ln(f * 2^e) = e * ln 2 + ln(j / 16) + 2 * atanh z for                   *)
(* 1 <= f < 2, j = floor(16 * f) and z = (16 * f - j) / (16 * f + j), with *)
(* atanh z = z + z^3/3 + z^5/5 + ...                                       *)
(***************************************************************************)
LnPrec == 6 * 16

\* acc + pw / k + pw * z2 / (k + 2) + ..., all in units of 2^-LnPrec, up to
\* the first power that is 0
RECURSIVE AtanhSeries(_, _, _, _)
AtanhSeries(pw, z2, k, acc) ==
    IF Eval(acc, pw = << >>) THEN acc
    ELSE AtanhSeries(BShr(BMul(pw, z2), LnPrec), z2, k + 2,
                     BAdd(acc, BDivSmall(pw, k)[1]))

\* floor(2^LnPrec * ln 2)
Ln2Fixed == <<13208, 5063, 26287, 3707, 32637, 11842, 44>>

\* floor(2^LnPrec * ln(j / 16)) for j = 16 .. 31
LnTable ==
   <<<< >>,
      <<14519, 31945, 19650, 17802, 1536, 28835, 3>>,
      <<32737, 21775, 6055, 22423, 30434, 17632, 7>>,
      <<5134, 20360, 7747, 31037, 3604, 32716, 10>>,
      <<15845, 5984, 3425, 10658, 30963, 9213, 14>>,
      <<21956, 26174, 24633, 29889, 10986, 13230, 17>>,
      <<24268, 23513, 10192, 3032, 28807, 12485, 20>>,
      <<20459, 4706, 27086, 31232, 32174, 7403, 23>>,
      <<22973, 13419, 16171, 29449, 31535, 31121, 25>>,
      <<31691, 11968, 6850, 21316, 29158, 18427, 28>>,
      <<17484, 25629, 19253, 24797, 22507, 2375, 31>>,
      <<22942, 2427, 22227, 19104, 29202, 15986, 33>>,
      <<12191, 17818, 1981, 4148, 12088, 26719, 35>>,
      <<4011, 22794, 17398, 17455, 6567, 2007, 38>>,
      <<6051, 19404, 19596, 7339, 29731, 7567, 40>>,
      <<30893, 31882, 24014, 29034, 4909, 10797, 42>>>>

\* ln(f * 2^e) in units of 2^-LnPrec, as <<sign, magnitude>>, for f = M / 2^52
\* with 2^52 <= M < 2^53, and j the leading 5 bits of M; z is
\* (16 f - j) / (16 f + j) < 1/32 in the same units
LnReduced(M, e, j) ==
    LET z == BDivMod(BShl(BSub(BShl(M, 4), BShl(<<j>>, 52)), LnPrec),
                     BAdd(BShl(M, 4), BShl(<<j>>, 52)))[1]
        P == BAdd(LnTable[j - 15],
                  BMulSmall(AtanhSeries(z, BShr(BMul(z, z), LnPrec), 1, << >>), 2))
    IN  IF e >= 0 THEN <<0, BAdd(BMulSmall(Ln2Fixed, e), P)>>
        ELSE <<1, BSub(BMulSmall(Ln2Fixed, -e), P)>>

\* <<s, L>> with ln x = (-1)^s * L * 2^-LnPrec (to within 2^-90), for a finite
\* double x > 0.  The nearest double to it is the nearest double to ln x
\* unless ln x is within 2^-90 of the middle of two doubles, or x is within
\* 2^-30 of 1 (the program takes the logarithm of 1 and of numbers from 2
\* up only).
LnFixed(x) == Apply("LnFixed", <<x>>)

LnFixedDef(x) ==
    LET len == BBitLen(FMant(x))
        M   == BShl(FMant(x), 53 - len)
    IN  LnReduced(M, FQ(x) + len - 1, BShr(M, 48)[1])

(***************************************************************************)
(* one-sided-ks.c: safe rounding.                                          *)
(***************************************************************************)
\* e, once v has a value: TLC evaluates LET definitions on demand, v is
\* demanded here so that e finds it computed
\* float_bits with mask for mask >> 1
float_bits_unshifted(x) == UXor(x, SignMask(x))

float_bits(x) == UXor(x, BShr(SignMask(x), 1))

bits_float(bits) == UXor(bits, BShr(SignMask(bits), 1))

next_k(x, delta) == Eval(x, bits_float(UAdd(float_bits(x), delta)))

next(x) == next_k(x, <<1>>)

prev_k(x, delta) == Eval(x, bits_float(USub(float_bits(x), delta)))

prev(x) == prev_k(x, <<1>>)

(***************************************************************************)
(* The log of the build: glibc 2.36, sysdeps/ieee754/dbl-64/e_log.c, in    *)
(* the variant glibc selects on a processor with FMA and AVX2 (__log_fma). *)
(* log_data is its __log_data: ln2hi + ln2lo is ln 2, poly and poly1 are   *)
(* the polynomials for log1p(r) - r, and tab[i + 1] is <<invc, logc>> with *)
(* invc near 1 / c and logc near ln c for c the centre of the i-th of 128  *)
(* subintervals of [0.6875, 1.375).                                        *)
(***************************************************************************)
log_data ==
    [ln2hi |-> W64(\H3FE6, \H2E42, \HFEFA, \H3800),
     ln2lo |-> W64(\H3D2E, \HF357, \H93C7, \H6730),
     poly  |-> <<W64(\HBFE0, \H0000, \H0000, \H0001),
                W64(\H3FD5, \H5555, \H5551, \H305B),
                W64(\HBFCF, \HFFFF, \HFFEB, \H4590),
                W64(\H3FC9, \H99B3, \H24F1, \H0111),
                W64(\HBFC5, \H5575, \HE506, \HC89F)>>,
     poly1 |-> <<W64(\HBFE0, \H0000, \H0000, \H0000),
                W64(\H3FD5, \H5555, \H5555, \H5577),
                W64(\HBFCF, \HFFFF, \HFFFF, \HFDCB),
                W64(\H3FC9, \H9999, \H9995, \HDD0C),
                W64(\HBFC5, \H5555, \H5567, \H45A7),
                W64(\H3FC2, \H4924, \HA344, \HDE30),
                W64(\HBFBF, \HFFFF, \HA442, \H3D65),
                W64(\H3FBC, \H7184, \H282A, \HD6CA),
                W64(\HBFB9, \H99EB, \H43B0, \H68FF),
                W64(\H3FB7, \H8182, \HF7AF, \HD085),
                W64(\HBFB5, \H5213, \H75D1, \H45CD)>>,
     tab   |-> <<
        <<W64(\H3FF7, \H34F0, \HC3E0, \HDE9F), W64(\HBFD7, \HCC7F, \H79E6, \H9000)>>,
        <<W64(\H3FF7, \H1378, \H6A2C, \HE91F), W64(\HBFD7, \H6FEE, \HC20D, \H0000)>>,
        <<W64(\H3FF6, \HF260, \H08FA, \HB5A0), W64(\HBFD7, \H13E3, \H1351, \HE000)>>,
        <<W64(\H3FF6, \HD1A6, \H1F13, \H8C7D), W64(\HBFD6, \HB85B, \H3828, \H7800)>>,
        <<W64(\H3FF6, \HB149, \H0BC5, \HB4D1), W64(\HBFD6, \H5D55, \H9080, \H7800)>>,
        <<W64(\H3FF6, \H9147, \H332F, \H0CBA), W64(\HBFD6, \H02D0, \H7618, \H0000)>>,
        <<W64(\H3FF6, \H719F, \H1822, \H4223), W64(\HBFD5, \HA8CA, \H8690, \H9000)>>,
        <<W64(\H3FF6, \H524F, \H99A5, \H1ED9), W64(\HBFD5, \H4F43, \H5603, \H5000)>>,
        <<W64(\H3FF6, \H3356, \HAA8F, \H24C4), W64(\HBFD4, \HF637, \HC36B, \H4000)>>,
        <<W64(\H3FF6, \H14B3, \H6B9D, \HDC14), W64(\HBFD4, \H9DA7, \HFDA8, \H5000)>>,
        <<W64(\H3FF5, \HF664, \H52C6, \H5C4C), W64(\HBFD4, \H4592, \H3989, \HA800)>>,
        <<W64(\H3FF5, \HD867, \HB591, \H2C4F), W64(\HBFD3, \HEDF4, \H39B0, \HB800)>>,
        <<W64(\H3FF5, \HBABC, \HCB5B, \H90DE), W64(\HBFD3, \H96CE, \H448F, \H7000)>>,
        <<W64(\H3FF5, \H9D61, \HF2D9, \H1A78), W64(\HBFD3, \H401E, \H17BD, \HA000)>>,
        <<W64(\H3FF5, \H8056, \H1246, \H5687), W64(\HBFD2, \HE9E2, \HEF46, \H8000)>>,
        <<W64(\H3FF5, \H6397, \HCEE7, \H6BD3), W64(\HBFD2, \H941B, \H3830, \HE000)>>,
        <<W64(\H3FF5, \H4725, \HE2A7, \H7F93), W64(\HBFD2, \H3EC5, \H8CDA, \H8800)>>,
        <<W64(\H3FF5, \H2AFF, \H4206, \H4583), W64(\HBFD1, \HE9E1, \H2927, \H9000)>>,
        <<W64(\H3FF5, \H0F22, \HDBB2, \HBDDF), W64(\HBFD1, \H956D, \H2B48, \HF800)>>,
        <<W64(\H3FF4, \HF38F, \H4734, \HDED7), W64(\HBFD1, \H4167, \H9AB9, \HF800)>>,
        <<W64(\H3FF4, \HD843, \HCFDE, \H2840), W64(\HBFD0, \HEDD0, \H94EF, \H9800)>>,
        <<W64(\H3FF4, \HBD3E, \HC078, \HA3C8), W64(\HBFD0, \H9AA5, \H18DB, \H1000)>>,
        <<W64(\H3FF4, \HA27F, \HC3E0, \H258A), W64(\HBFD0, \H47E6, \H5263, \HB800)>>,
        <<W64(\H3FF4, \H8805, \H24D4, \H8434), W64(\HBFCF, \HEB22, \H4586, \HF000)>>,
        <<W64(\H3FF4, \H6DCE, \H1B19, \H2D0B), W64(\HBFCF, \H474A, \H7517, \HB000)>>,
        <<W64(\H3FF4, \H53D9, \HD339, \H1854), W64(\HBFCE, \HA444, \H3D10, \H3000)>>,
        <<W64(\H3FF4, \H3A27, \H44B4, \H845A), W64(\HBFCE, \H020D, \H44E9, \HB000)>>,
        <<W64(\H3FF4, \H20B5, \H4115, \HF8FB), W64(\HBFCD, \H60A2, \H2977, \HF000)>>,
        <<W64(\H3FF4, \H0782, \HDA3E, \HF4B1), W64(\HBFCC, \HC001, \H0495, \H9000)>>,
        <<W64(\H3FF3, \HEE8F, \H5D57, \HFE8F), W64(\HBFCC, \H2029, \H5689, \H1000)>>,
        <<W64(\H3FF3, \HD5D9, \HA00B, \H4CE9), W64(\HBFCB, \H8117, \H8D81, \H1000)>>,
        <<W64(\H3FF3, \HBD60, \HC010, \HC12B), W64(\HBFCA, \HE2C9, \HCCD3, \HD000)>>,
        <<W64(\H3FF3, \HA524, \H2B75, \HDAB8), W64(\HBFCA, \H4540, \H2E12, \H9000)>>,
        <<W64(\H3FF3, \H8D22, \HCD9F, \HD002), W64(\HBFC9, \HA877, \H681D, \HF000)>>,
        <<W64(\H3FF3, \H755B, \HC584, \H7A1C), W64(\HBFC9, \H0C6D, \H6948, \H3000)>>,
        <<W64(\H3FF3, \H5DCE, \H49AD, \H36E2), W64(\HBFC8, \H7120, \HA645, \HC000)>>,
        <<W64(\H3FF3, \H4679, \H984D, \HD440), W64(\HBFC7, \HD68F, \HB414, \H3000)>>,
        <<W64(\H3FF3, \H2F5C, \HCEFF, \HCB24), W64(\HBFC7, \H3CB8, \H3C62, \H7000)>>,
        <<W64(\H3FF3, \H1877, \H75A1, \H0D49), W64(\HBFC6, \HA39A, \H9B37, \H6000)>>,
        <<W64(\H3FF3, \H01C8, \H373E, \H3990), W64(\HBFC6, \H0B31, \H54B7, \HA000)>>,
        <<W64(\H3FF2, \HEB4E, \HBB95, \HF841), W64(\HBFC5, \H737D, \H7624, \H3000)>>,
        <<W64(\H3FF2, \HD50A, \H0219, \HA9D1), W64(\HBFC4, \HDC7B, \H8FC2, \H3000)>>,
        <<W64(\H3FF2, \HBEF9, \HA8B7, \HFD2A), W64(\HBFC4, \H462C, \H51D2, \H0000)>>,
        <<W64(\H3FF2, \HA91C, \H7A0C, \H1BAB), W64(\HBFC3, \HB08A, \HBC83, \H0000)>>,
        <<W64(\H3FF2, \H9372, \H6014, \HB530), W64(\HBFC3, \H1B99, \H6B49, \H0000)>>,
        <<W64(\H3FF2, \H7DFA, \H5757, \HA1F5), W64(\HBFC2, \H8754, \H90A4, \H4000)>>,
        <<W64(\H3FF2, \H68B3, \H9B1D, \H3BBF), W64(\HBFC1, \HF3B9, \HF879, \HA000)>>,
        <<W64(\H3FF2, \H539D, \H838F, \HF5BD), W64(\HBFC1, \H60C8, \H252C, \HA000)>>,
        <<W64(\H3FF2, \H3EB7, \HAAC9, \H083B), W64(\HBFC0, \HCE7F, \H57F7, \H2000)>>,
        <<W64(\H3FF2, \H2A01, \H2BA9, \H40B6), W64(\HBFC0, \H3CDC, \H49FE, \HA000)>>,
        <<W64(\H3FF2, \H1579, \H96CC, \H4132), W64(\HBFBF, \H57BD, \HBC4B, \H8000)>>,
        <<W64(\H3FF2, \H0120, \H1DD2, \HFC9B), W64(\HBFBE, \H3708, \H9640, \H4000)>>,
        <<W64(\H3FF1, \HECF4, \H494D, \H480B), W64(\HBFBD, \H1798, \H3EF9, \H4000)>>,
        <<W64(\H3FF1, \HD8F5, \H528F, \H6569), W64(\HBFBB, \HF967, \H4ED8, \HA000)>>,
        <<W64(\H3FF1, \HC523, \H1157, \H7E7C), W64(\HBFBA, \HDC79, \H202F, \H6000)>>,
        <<W64(\H3FF1, \HB17C, \H74CB, \H26E9), W64(\HBFB9, \HC0C3, \HE728, \H8000)>>,
        <<W64(\H3FF1, \H9E01, \H0C2C, \H1AB6), W64(\HBFB8, \HA646, \HB372, \HC000)>>,
        <<W64(\H3FF1, \H8AB0, \H7BB6, \H70BD), W64(\HBFB7, \H8D01, \HB3AC, \H0000)>>,
        <<W64(\H3FF1, \H778A, \H25EF, \HBCB6), W64(\HBFB6, \H74F1, \H4538, \H0000)>>,
        <<W64(\H3FF1, \H648D, \H354C, \H31DA), W64(\HBFB5, \H5E0E, \H6D87, \H8000)>>,
        <<W64(\H3FF1, \H51B9, \H9027, \H5FDD), W64(\HBFB4, \H485C, \HDEA1, \HE000)>>,
        <<W64(\H3FF1, \H3F0E, \HA432, \HD24C), W64(\HBFB3, \H33D9, \H4D6A, \HA000)>>,
        <<W64(\H3FF1, \H2C8B, \H7210, \HF9DA), W64(\HBFB2, \H2079, \HF8C5, \H6000)>>,
        <<W64(\H3FF1, \H1A30, \H28EC, \HB531), W64(\HBFB1, \H0E46, \H9862, \H2000)>>,
        <<W64(\H3FF1, \H07FB, \HDA84, \H34AF), W64(\HBFAF, \HFA6C, \H6AD2, \H0000)>>,
        <<W64(\H3FF0, \HF5EE, \H0F4E, \H6BB3), W64(\HBFAD, \HDA8D, \H4A77, \H4000)>>,
        <<W64(\H3FF0, \HE406, \H5D2A, \H9FCE), W64(\HBFAB, \HBCEC, \HE485, \H0000)>>,
        <<W64(\H3FF0, \HD244, \H632C, \HA521), W64(\HBFA9, \HA189, \H4012, \HC000)>>,
        <<W64(\H3FF0, \HC0A7, \H7CE2, \H981A), W64(\HBFA7, \H8858, \H3302, \HC000)>>,
        <<W64(\H3FF0, \HAF2F, \H83C6, \H36D1), W64(\HBFA5, \H715E, \H67D6, \H8000)>>,
        <<W64(\H3FF0, \H9DDB, \H98A0, \H1339), W64(\HBFA3, \H5C8A, \H4965, \H8000)>>,
        <<W64(\H3FF0, \H8CAB, \HAF52, \HE7DF), W64(\HBFA1, \H49E3, \H6415, \H4000)>>,
        <<W64(\H3FF0, \H7B9F, \H2F4E, \H28FB), W64(\HBF9E, \H72C0, \H82EB, \H8000)>>,
        <<W64(\H3FF0, \H6AB5, \H8C35, \H8F19), W64(\HBF9A, \H55F1, \H5252, \H8000)>>,
        <<W64(\H3FF0, \H59EE, \HA5EC, \HF92C), W64(\HBF96, \H3D62, \HCF81, \H8000)>>,
        <<W64(\H3FF0, \H4949, \HCDD1, \H2C90), W64(\HBF92, \H28FB, \H8CAA, \H0000)>>,
        <<W64(\H3FF0, \H38C6, \HC6F0, \HADA9), W64(\HBF8C, \H317B, \H20F9, \H0000)>>,
        <<W64(\H3FF0, \H2865, \H1379, \H32A9), W64(\HBF84, \H1935, \H5DAA, \H0000)>>,
        <<W64(\H3FF0, \H1824, \H27EA, \H7348), W64(\HBF78, \H1203, \HC2EC, \H0000)>>,
        <<W64(\H3FF0, \H0804, \H0614, \HB195), W64(\HBF60, \H0409, \H7924, \H0000)>>,
        <<W64(\H3FEF, \HE01F, \HF726, \HFA1A), W64(\H3F6F, \HEFF3, \H8490, \H0000)>>,
        <<W64(\H3FEF, \HA11C, \HC261, \HEA74), W64(\H3F87, \HDC41, \H353D, \H0000)>>,
        <<W64(\H3FEF, \H6310, \HB081, \H992E), W64(\H3F93, \HCEA3, \HC4C2, \H8000)>>,
        <<W64(\H3FEF, \H25F6, \H3CEE, \HADCD), W64(\H3F9B, \H9FC1, \H1489, \H0000)>>,
        <<W64(\H3FEE, \HE9C8, \H0391, \H13E7), W64(\H3FA1, \HB0D8, \HCE11, \H0000)>>,
        <<W64(\H3FEE, \HAE80, \H78CB, \HB1AB), W64(\H3FA5, \H8A5B, \HD001, \HC000)>>,
        <<W64(\H3FEE, \H741A, \HA29D, \H0C9B), W64(\H3FA9, \H5C83, \H40D8, \H8000)>>,
        <<W64(\H3FEE, \H3A91, \H830A, \H99B5), W64(\H3FAD, \H276A, \HEF57, \H8000)>>,
        <<W64(\H3FEE, \H01E0, \H0960, \H9A56), W64(\H3FB0, \H7598, \HE598, \HC000)>>,
        <<W64(\H3FED, \HCA01, \HE577, \HBB98), W64(\H3FB2, \H53F5, \HE30D, \H2000)>>,
        <<W64(\H3FED, \H92F2, \H0B7C, \H9103), W64(\H3FB4, \H2EDD, \H8B38, \H0000)>>,
        <<W64(\H3FED, \H5CAC, \H66FB, \H5CCE), W64(\H3FB6, \H0659, \H8757, \HC000)>>,
        <<W64(\H3FED, \H272C, \HAA5E, \HDE9D), W64(\H3FB7, \HDA76, \H356A, \H0000)>>,
        <<W64(\H3FEC, \HF26E, \H3E6B, \H2CCD), W64(\H3FB9, \HAB43, \H4E1C, \H6000)>>,
        <<W64(\H3FEC, \HBE6D, \HA2A7, \H7902), W64(\H3FBB, \H78C7, \HBB0D, \H6000)>>,
        <<W64(\H3FEC, \H8B26, \H6D37, \H086D), W64(\H3FBD, \H4313, \H32E7, \H2000)>>,
        <<W64(\H3FEC, \H5894, \HBD5D, \H5804), W64(\H3FBF, \H0A31, \H71DE, \H6000)>>,
        <<W64(\H3FEC, \H26B5, \H33BB, \H9F8C), W64(\H3FC0, \H6715, \H2B91, \H4000)>>,
        <<W64(\H3FEB, \HF583, \HEEEC, \HE73F), W64(\H3FC1, \H4785, \H8292, \HB000)>>,
        <<W64(\H3FEB, \HC4FD, \H75DB, \H96C1), W64(\H3FC2, \H266E, \HCDCA, \H3000)>>,
        <<W64(\H3FEB, \H951E, \H0C86, \H4A28), W64(\H3FC3, \H03D7, \HA6C5, \H5000)>>,
        <<W64(\H3FEB, \H65E2, \HC5EF, \H3E2C), W64(\H3FC3, \HDFC3, \H3C33, \H1000)>>,
        <<W64(\H3FEB, \H3748, \H67C9, \H888B), W64(\H3FC4, \HBA36, \H6B7A, \H8000)>>,
        <<W64(\H3FEB, \H094B, \H211D, \H304A), W64(\H3FC5, \H9339, \H28D1, \HF000)>>,
        <<W64(\H3FEA, \HDBE8, \H85F2, \HEF7E), W64(\H3FC6, \H6ACD, \H2418, \HF000)>>,
        <<W64(\H3FEA, \HAF1D, \H3160, \H3DA2), W64(\H3FC7, \H40F8, \HEC66, \H9000)>>,
        <<W64(\H3FEA, \H82E6, \H3FD3, \H58A7), W64(\H3FC8, \H15C0, \HF51A, \HF000)>>,
        <<W64(\H3FEA, \H5740, \HEF09, \H738B), W64(\H3FC8, \HE929, \H54F6, \H8000)>>,
        <<W64(\H3FEA, \H2C2A, \H90AB, \H4B27), W64(\H3FC9, \HBB36, \H02F8, \H4000)>>,
        <<W64(\H3FEA, \H01A0, \H1393, \HF2D1), W64(\H3FCA, \H8BED, \H1C2C, \H0000)>>,
        <<W64(\H3FE9, \HD79F, \H24DB, \H3C1B), W64(\H3FCB, \H5B51, \H5C01, \HD000)>>,
        <<W64(\H3FE9, \HAE25, \H05C7, \HB190), W64(\H3FCC, \H2967, \HCCBC, \HC000)>>,
        <<W64(\H3FE9, \H852E, \HF297, \HCE2F), W64(\H3FCC, \HF635, \HD548, \H6000)>>,
        <<W64(\H3FE9, \H5CBA, \HEEA4, \H4B75), W64(\H3FCD, \HC1BD, \H3446, \HC000)>>,
        <<W64(\H3FE9, \H34C6, \H9DE7, \H4838), W64(\H3FCE, \H8C01, \HB8CF, \HE000)>>,
        <<W64(\H3FE9, \H0D4F, \H2F67, \H52E6), W64(\H3FCF, \H5509, \HC017, \H9000)>>,
        <<W64(\H3FE8, \HE652, \H8EFF, \HD79D), W64(\H3FD0, \H0E6C, \H121F, \HB800)>>,
        <<W64(\H3FE8, \HBFCE, \H9FCC, \H007C), W64(\H3FD0, \H71B8, \H0E93, \HD000)>>,
        <<W64(\H3FE8, \H99C0, \HDABE, \HC30E), W64(\H3FD0, \HD46B, \H9E86, \H7000)>>,
        <<W64(\H3FE8, \H7427, \HAA23, \H17FB), W64(\H3FD1, \H3687, \H334B, \HD000)>>,
        <<W64(\H3FE8, \H4F00, \HACB3, \H9A08), W64(\H3FD1, \H980D, \H6723, \H4800)>>,
        <<W64(\H3FE8, \H2A49, \HE865, \H3E55), W64(\H3FD1, \HF8FF, \HE0CC, \H8000)>>,
        <<W64(\H3FE8, \H0601, \H95F4, \H0260), W64(\H3FD2, \H595F, \HD763, \H6800)>>,
        <<W64(\H3FE7, \HE225, \H63E0, \HA329), W64(\H3FD2, \HB930, \H0914, \HA800)>>,
        <<W64(\H3FE7, \HBEB3, \H77DC, \HB5AD), W64(\H3FD3, \H1872, \H1043, \H6000)>>,
        <<W64(\H3FE7, \H9BAA, \H6797, \H25C2), W64(\H3FD3, \H7726, \H6DEC, \H1800)>>,
        <<W64(\H3FE7, \H7907, \HF217, \H0657), W64(\H3FD3, \HD54F, \HFBAF, \H3000)>>,
        <<W64(\H3FE7, \H56CA, \HDBD6, \H130C), W64(\H3FD4, \H32EE, \HE32F, \HE000)>>>>]

\* log(x) for x in [1 - 2^-4, 1 + 0x1.09p-4) other than 1, from r = x - 1 and
\* B = poly1: r - r^2 / 2 + r^3 * (B[2] + ...), with r^2 / 2 computed from the
\* high 26 bits rhi of r and the rest
log_near_one(r, B) ==
    LET r2  == FMul(r, r)
        r3  == FMul(r, r2)
        y   == FFma(FFma(FFma(r3, B[11], FFma(r2, B[10], FFma(B[9], r, B[8]))), r3,
                         FFma(r2, B[7], FFma(B[6], r, B[5]))), r3,
                    FFma(r2, B[4], FFma(B[3], r, B[2])))
        rhi == FFma(FNeg(W64(\H41A0, 0, 0, 0)), r, FFma(r, W64(\H41A0, 0, 0, 0), r))
        hi  == FFma(FMul(rhi, rhi), B[1], r)
        lo  == FFma(FMul(B[1], FSub(r, rhi)), FAdd(r, rhi),
                    FFma(FMul(rhi, rhi), B[1], FSub(r, hi)))
    IN  FAdd(hi, FFma(y, r3, lo))

\* log(2^k * z) for z in [0.6875, 1.375) in the subinterval i, kd = (double)k
\* and D = log_data: k * ln 2 + logc + log1p(r) with r = z * invc - 1
log_table(z, kd, i, D) ==
    LET T  == D.tab[i + 1]
        A  == D.poly
        w  == FFma(kd, D.ln2hi, T[2])
        r  == FFma(z, T[1], MinusOne)
        r2 == FMul(r, r)
        hi == FAdd(r, w)
        lo == FFma(kd, D.ln2lo, FAdd(FSub(w, hi), r))
    IN  FAdd(FFma(FMul(r, r2), FFma(FFma(r, A[5], A[4]), r2, FFma(r, A[3], A[2])),
                  FFma(r2, A[1], lo)),
             hi)

libm_error_limit == 4

\* libm's log (C11 F.10.3.7 for the special values)
log(x) == Apply("log", <<x>>)

\* With libm_err = << >> it is the log of the build: ix is x's bit pattern (of
\* x * 2^52, less 52 in the exponent field, for a subnormal x), and
\* x = 2^k * z with z in [0.6875, 1.375) in the subinterval i.  Otherwise it
\* is the double furthest from ln x that is still less than |e| ULPs away, above
\* ln x for e > 0 and below it for e < 0, with e = libm_err[1] when x's
\* exponent field is even and libm_err[2] when it is odd: n is the nearest
\* double to ln x and over says that n > ln x, so that the first double above
\* ln x is n or next(n); LnFixed tells them apart for x = 1 and the x outside
\* (1/2, 2), which are the arguments the program has (counts and the doubles
\* from min_count on).
\* (TLC takes the first arm of a CASE whose condition holds)
logDef(x) ==
    LET ix  == IF FExp(x) = 0
               THEN USub(FMul(x, W64(\H4330, 0, 0, 0)), W64(\H0340, 0, 0, 0))
               ELSE x
        tmp == USub(ix, W64(\H3FE6, 0, 0, 0))
        k   == BDigit(BShr(tmp, 52), 1)
        i   == BDigit(BLow(BShr(tmp, 45), 7), 1)
        e   == libm_err[(FExp(x) % 2) + 1]
        l   == LnFixed(x)
        n   == Eval(l, RoundPack(l[1], l[2], -LnPrec, TRUE))
        sh  == FQ(n) + LnPrec
        over == (l[1] = 0) = (IF sh >= 0 THEN BLt(l[2], BShl(FMant(n), sh))
                              ELSE BLt(BShl(l[2], -sh), FMant(n)))
    IN  CASE IsNaN(x) -> Quiet(x)
          [] IsZero(x) -> NegInf
          [] FSign(x) = 1 -> DefaultNaN
          [] IsInf(x) -> x
          [] x = One -> PosZero
          [] libm_err # << >> ->
                 IF e > 0 THEN next_k(n, BOfInt(IF over THEN e - 1 ELSE e))
                 ELSE IF e < 0 THEN prev_k(n, BOfInt(IF over THEN -e ELSE -e - 1))
                 ELSE n
          [] BLt(USub(x, W64(\H3FEE, 0, 0, 0)), W64(\H0003, \H0900, 0, 0)) ->
                 log_near_one(FSub(x, One), Apply("log_data", << >>).poly1)
          [] OTHER ->
                 log_table(USub(ix, BShl(BShr(tmp, 52), 52)),
                           IF k >= 2^11 THEN FNeg(U64ToDouble(<<2^12 - k>>))
                           ELSE U64ToDouble(BOfInt(k)),
                           i, Apply("log_data", << >>))

\* log_up with the error of libm taken off instead of added
log_up_rounded_down(x) == prev_k(log(x), BOfInt(libm_error_limit))

log_up(x) == next_k(log(x), BOfInt(libm_error_limit))

log_down(x) == prev_k(log(x), BOfInt(libm_error_limit))

sqrt_up(x) == next(sqrt(x))

sqrt_down(x) == prev(sqrt(x))

threshold_up(x, lb) == Apply("threshold_up", <<x, lb>>)

threshold_upDef(x, lb) ==
    LET xp1  == FAdd(x, One)
        lg   == log_up(x)
        sum  == next(IF codegen.contract
                     THEN FFma(W64(\H4000, 0, 0, 0), lg, lb)
                     ELSE FAdd(FMul(W64(\H4000, 0, 0, 0), lg), lb))
        f_x2 == next(FMul(xp1, sum))
        root == sqrt_up(f_x2)
    IN  Eval(lg, Eval(sum, Eval(f_x2, Eval(root, next(FDiv(root, x))))))

threshold_down(x, lb) == Apply("threshold_down", <<x, lb>>)

threshold_downDef(x, lb) ==
    LET xp1  == FAdd(x, One)
        lg   == log_down(x)
        sum  == prev(IF codegen.contract
                     THEN FFma(W64(\H4000, 0, 0, 0), lg, lb)
                     ELSE FAdd(FMul(W64(\H4000, 0, 0, 0), lg), lb))
        f_x2 == prev(FMul(xp1, sum))
        root == sqrt_down(f_x2)
    IN  Eval(lg, Eval(sum, Eval(f_x2, Eval(root, prev(FDiv(root, x))))))

log_b_up(min_count, log_eps) ==
    LET lg == log_down(FSub(U64ToDouble(min_count), One))
    IN  Eval(lg, next(FSub(FNeg(lg), log_eps)))

log_b_down(min_count, log_eps) ==
    LET lg == log_up(FSub(U64ToDouble(min_count), One))
    IN  Eval(lg, prev(FSub(FNeg(lg), log_eps)))

one_sided_ks_threshold_fast(n, min_count, log_eps) == Apply("threshold_fast", <<n, min_count, log_eps>>)

\* one_sided_ks_threshold_fast with its two early returns in the other order
threshold_fast_degenerate_first(n, min_count, log_eps) ==
    IF FGeq(log_eps, PosZero) THEN FNeg(HUGE_VAL)
    ELSE IF BLt(n, min_count) THEN HUGE_VAL
    ELSE threshold_up(U64ToDouble(n), log_b_up(min_count, log_eps))

\* one_sided_ks_threshold_fast with log_eps > 0 for log_eps >= 0
threshold_fast_strict(n, min_count, log_eps) ==
    IF BLt(n, min_count) THEN HUGE_VAL
    ELSE IF FLess(PosZero, log_eps) THEN FNeg(HUGE_VAL)
    ELSE threshold_up(U64ToDouble(n), log_b_up(min_count, log_eps))

one_sided_ks_threshold_fastDef(n, min_count, log_eps) ==
    IF BLt(n, min_count) THEN HUGE_VAL
    ELSE IF FGeq(log_eps, PosZero) THEN FNeg(HUGE_VAL)
    ELSE LET lb == log_b_up(min_count, log_eps)
         IN  Eval(lb, threshold_up(U64ToDouble(n), lb))

one_sided_ks_min_count_valid(min_count, log_eps) == Apply("min_count_valid", <<min_count, log_eps>>)

\* one_sided_ks_min_count_valid with log_eps <= 0 for log_eps >= 0 in its
\* early return
min_count_valid_early(min_count, log_eps) ==
    IF FLeq(log_eps, PosZero) THEN 1
    ELSE IF BLe(min_count, <<2>>) THEN 0
    ELSE 1

one_sided_ks_min_count_validDef(min_count, log_eps) ==
    IF FGeq(log_eps, PosZero) THEN 1
    ELSE IF BLe(min_count, <<2>>) THEN 0
    ELSE LET lhs == prev(FAdd(log_eps, U64ToDouble(USub(min_count, <<1>>))))
             rhs == log_up(FAdd(U64ToDouble(min_count), One))
         IN  IF Eval(lhs, FGeq(lhs, rhs)) THEN 1 ELSE 0

\* the i the galloping loop ends with: the first i in 1 .. 63 with 2^i valid,
\* and 64 when there is none
Gallop(log_eps) ==
    CHOOSE i \in 1..64 :
        /\ i = 64 \/ one_sided_ks_min_count_valid(UShl(<<1>>, i), log_eps) # 0
        /\ \A j \in 1..(i - 1) :
               one_sided_ks_min_count_valid(UShl(<<1>>, j), log_eps) = 0

\* one_sided_ks_min_count_valid(min_count, log_eps) != 0, as the loops of
\* find_min_count test it, or what the predicate v says of min_count when
\* find_min_count searches with v in its place
Valid(min_count, log_eps, v) ==
    IF v = << >> THEN one_sided_ks_min_count_valid(min_count, log_eps) # 0
    ELSE /\ Len(min_count) = 1
         /\ min_count[1] <= Len(v)
         /\ v[min_count[1]]

\* an iteration of the binary search loop that takes the pivot for the new
\* high without testing it
BisectStep_untested(st, log_eps, v) ==
    IF BLt(UAdd(st[1], <<1>>), st[2])
    THEN <<st[1], UAdd(st[1], BShr(USub(st[2], st[1]), 1))>>
    ELSE st

\* an iteration of the binary search loop that moves the wrong end
BisectStep_inverted(st, log_eps, v) ==
    IF BLt(UAdd(st[1], <<1>>), st[2])
    THEN LET pivot == UAdd(st[1], BShr(USub(st[2], st[1]), 1))
         IN  IF Valid(pivot, log_eps, v)
             THEN <<pivot, st[2]>>
             ELSE <<st[1], pivot>>
    ELSE st

\* one iteration of the binary search loop on st = <<low, high>>; the loop has
\* ended when low + 1 >= high
BisectStep(st, log_eps, v) ==
    IF BLt(UAdd(st[1], <<1>>), st[2])
    THEN LET pivot == UAdd(st[1], BShr(USub(st[2], st[1]), 1))
         IN  IF Valid(pivot, log_eps, v)
             THEN <<st[1], pivot>>
             ELSE <<pivot, st[2]>>
    ELSE st

\* up to eight iterations of the loop, each on the result of the one before
BisectSteps(st, log_eps) ==
    LET s1 == Apply("BisectStep", <<st, log_eps, << >>>>)
        s2 == Apply("BisectStep", <<s1, log_eps, << >>>>)
        s3 == Apply("BisectStep", <<s2, log_eps, << >>>>)
        s4 == Apply("BisectStep", <<s3, log_eps, << >>>>)
        s5 == Apply("BisectStep", <<s4, log_eps, << >>>>)
        s6 == Apply("BisectStep", <<s5, log_eps, << >>>>)
        s7 == Apply("BisectStep", <<s6, log_eps, << >>>>)
        s8 == Apply("BisectStep", <<s7, log_eps, << >>>>)
    IN  Eval(<<s1, s2, s3, s4, s5, s6, s7>>, s8)

\* the binary search loop from low, high on: the high it ends with, after 62
\* iterations at most
Bisect(st, log_eps) ==
    LET s1 == Apply("BisectSteps", <<st, log_eps>>)
        s2 == Apply("BisectSteps", <<s1, log_eps>>)
        s3 == Apply("BisectSteps", <<s2, log_eps>>)
        s4 == Apply("BisectSteps", <<s3, log_eps>>)
        s5 == Apply("BisectSteps", <<s4, log_eps>>)
        s6 == Apply("BisectSteps", <<s5, log_eps>>)
        s7 == Apply("BisectSteps", <<s6, log_eps>>)
        s8 == Apply("BisectSteps", <<s7, log_eps>>)
    IN  Eval(<<s1, s2, s3, s4, s5, s6, s7>>, s8)[2]

one_sided_ks_find_min_count(log_eps) ==
    IF FGeq(log_eps, PosZero) THEN << >>
    ELSE LET i == Gallop(log_eps)
         IN  IF i = 1 THEN <<2>>
             ELSE IF i >= 64 THEN UINT64_MAX
             ELSE Bisect(<<UShl(<<1>>, i - 1), UShl(<<1>>, i)>>, log_eps)

\* one_sided_ks_threshold without the replacement of an invalid min_count
threshold_unsubstituted(n, min_count, log_eps) ==
    one_sided_ks_threshold_fast(n, min_count, log_eps)

one_sided_ks_threshold(n, min_count, log_eps) ==
    one_sided_ks_threshold_fast(
        n,
        IF one_sided_ks_min_count_valid(min_count, log_eps) = 0
        THEN one_sided_ks_find_min_count(log_eps)
        ELSE min_count,
        log_eps)

\* threshold_up or threshold_down, as the function pointer of invert_threshold
Threshold(up, x, lb) == IF up THEN threshold_up(x, lb) ELSE threshold_down(x, lb)

\* const double pivot = bits_float(low_bits + (high_bits - low_bits) / 2);
Pivot(lo, hi) ==
    bits_float(UAdd(float_bits(lo), BShr(USub(float_bits(hi), float_bits(lo)), 1)))

\* the rest of an iteration of the loop of invert_threshold, from its pivot
InvertAt(st, pivot, target, up, lb) ==
    LET fx == Threshold(up, pivot, lb)
    IN  IF FEq(fx, target) THEN <<pivot, pivot, TRUE>>
        ELSE IF FLess(fx, target) THEN <<st[1], pivot, FALSE>>
        ELSE <<pivot, st[2], FALSE>>

\* one iteration of the bisection loop of invert_threshold on
\* st = <<low, high, returned>>; once an iteration has returned the pivot
\* (kept in low and high), the remaining iterations do not run
InvertStep(st, target, up, lb) ==
    IF st[3] THEN st ELSE InvertAt(st, Pivot(st[1], st[2]), target, up, lb)

\* eight iterations of the loop, each on the result of the one before
InvertSteps(st, target, up, lb) ==
    LET s1 == Apply("InvertStep", <<st, target, up, lb>>)
        s2 == Apply("InvertStep", <<s1, target, up, lb>>)
        s3 == Apply("InvertStep", <<s2, target, up, lb>>)
        s4 == Apply("InvertStep", <<s3, target, up, lb>>)
        s5 == Apply("InvertStep", <<s4, target, up, lb>>)
        s6 == Apply("InvertStep", <<s5, target, up, lb>>)
        s7 == Apply("InvertStep", <<s6, target, up, lb>>)
        s8 == Apply("InvertStep", <<s7, target, up, lb>>)
    IN  Eval(<<s1, s2, s3, s4, s5, s6, s7>>, s8)

\* the 64 iterations of the loop, eight at a time
InvertLoop(st, target, up, lb) ==
    LET s1 == Apply("InvertSteps", <<st, target, up, lb>>)
        s2 == Apply("InvertSteps", <<s1, target, up, lb>>)
        s3 == Apply("InvertSteps", <<s2, target, up, lb>>)
        s4 == Apply("InvertSteps", <<s3, target, up, lb>>)
        s5 == Apply("InvertSteps", <<s4, target, up, lb>>)
        s6 == Apply("InvertSteps", <<s5, target, up, lb>>)
        s7 == Apply("InvertSteps", <<s6, target, up, lb>>)
        s8 == Apply("InvertSteps", <<s7, target, up, lb>>)
    IN  Eval(<<s1, s2, s3, s4, s5, s6, s7>>, s8)

invert_threshold(min_count, target, up, lb) ==
    LET first == Threshold(up, U64ToDouble(min_count), lb)
        last  == Threshold(up, DBL_MAX, lb)
        st    == Apply("InvertLoop", <<<<U64ToDouble(min_count), DBL_MAX, FALSE>>, target, up, lb>>)
    IN  IF Eval(first, FLeq(first, target)) THEN U64ToDouble(min_count)
        ELSE IF Eval(last, FGeq(last, target)) THEN DBL_MAX
        ELSE Eval(st, IF st[3] THEN st[1] ELSE IF up THEN st[2] ELSE st[1])

\* what invert_threshold does before its loop, with the log_b that
\* invert_threshold_up (up) or invert_threshold_down passes: <<TRUE, r>> when
\* it returns r, <<FALSE, low, high>> when it enters the loop
InvertEntry(target, up, min_count, log_eps) ==
    LET lb    == Apply(IF up THEN "log_b_up" ELSE "log_b_down", <<min_count, log_eps>>)
        first == Threshold(up, U64ToDouble(min_count), lb)
        last  == Threshold(up, DBL_MAX, lb)
    IN  IF Eval(lb, Eval(first, FLeq(first, target))) THEN <<TRUE, U64ToDouble(min_count)>>
        ELSE IF Eval(last, FGeq(last, target)) THEN <<TRUE, DBL_MAX>>
        ELSE <<FALSE, U64ToDouble(min_count), DBL_MAX>>

\* an iteration of the loop from low = lo and high = hi, with that log_b
InvertIterate(lo, hi, target, up, min_count, log_eps) ==
    LET lb == Apply(IF up THEN "log_b_up" ELSE "log_b_down", <<min_count, log_eps>>)
    IN  Eval(lb, InvertStep(<<lo, hi, FALSE>>, target, up, lb))

invert_threshold_up(target, min_count, log_eps) ==
    LET lb == Apply("log_b_up", <<min_count, log_eps>>)
    IN  Eval(lb, invert_threshold(min_count, target, TRUE, lb))

invert_threshold_down(target, min_count, log_eps) ==
    LET lb == Apply("log_b_down", <<min_count, log_eps>>)
    IN  Eval(lb, invert_threshold(min_count, target, FALSE, lb))

\* one_sided_ks_expected_iter with the test of min_count's validity before
\* the test for a degenerate delta or min_count
expected_iter_validity_first(min_count, log_eps, delta) ==
    IF FGeq(log_eps, PosZero) THEN PosZero
    ELSE IF one_sided_ks_min_count_valid(min_count, log_eps) = 0 THEN MinusOne
    ELSE IF min_count = << >> \/ FLeq(delta, PosZero) THEN DBL_MAX
    ELSE Apply("invert_threshold_up", <<delta, min_count, log_eps>>)

\* one_sided_ks_expected_iter without the test of min_count's validity, up to
\* its first threshold
expected_iter_unchecked(min_count, log_eps, delta) ==
    IF FGeq(log_eps, PosZero) THEN PosZero
    ELSE IF min_count = << >> \/ FLeq(delta, PosZero) THEN DBL_MAX
    ELSE one_sided_ks_threshold(min_count, min_count, log_eps)

one_sided_ks_expected_iter(min_count, log_eps, delta) ==
    IF FGeq(log_eps, PosZero) THEN PosZero
    ELSE IF min_count = << >> \/ FLeq(delta, PosZero) THEN DBL_MAX
    ELSE IF one_sided_ks_min_count_valid(min_count, log_eps) = 0 THEN MinusOne
    ELSE LET first_threshold == one_sided_ks_threshold(min_count, min_count, log_eps)
             half    == FDiv(first_threshold, W64(\H4000, 0, 0, 0))
             delta2  == IF FLess(half, delta) THEN prev(half) ELSE delta
             g_delta == Apply("invert_threshold_down", <<delta2, min_count, log_eps>>)
             inner   == FSub(delta2, next(FDiv(FMul(One, U64ToDouble(min_count)), g_delta)))
         IN  Eval(<<first_threshold, g_delta>>,
                  Apply("invert_threshold_up", <<prev(inner), min_count, log_eps>>))

\* the dispatch announced at the top of the module; the arguments are
\* evaluated before the call, as in C
Apply(f, args) ==
    IF args # args THEN args
    ELSE CASE f = "BDivMod"   -> BDivModDef(args[1], args[2])
           [] f = "RoundPack" -> RoundPackDef(args[1], args[2], args[3], args[4])
           [] f = "FAdd"      -> FAddDef(args[1], args[2])
           [] f = "FMul"      -> FMulDef(args[1], args[2])
           [] f = "FDiv"      -> FDivDef(args[1], args[2])
           [] f = "FFma"      -> FFmaDef(args[1], args[2], args[3])
           [] f = "sqrt"      -> sqrtDef(args[1])
           [] f = "LnFixed"   -> LnFixedDef(args[1])
           [] f = "threshold" -> one_sided_ks_threshold(args[1], args[2], args[3])
           [] f = "threshold_fast" -> one_sided_ks_threshold_fastDef(args[1], args[2], args[3])
           [] f = "min_count_valid" -> one_sided_ks_min_count_validDef(args[1], args[2])
           [] f = "log" -> logDef(args[1])
           [] f = "log_data" -> log_data
           [] f = "log_b_up" -> log_b_up(args[1], args[2])
           [] f = "log_b_down" -> log_b_down(args[1], args[2])
           [] f = "threshold_up" -> threshold_upDef(args[1], args[2])
           [] f = "threshold_down" -> threshold_downDef(args[1], args[2])
           [] f = "InvertStep" -> InvertStep(args[1], args[2], args[3], args[4])
           [] f = "InvertSteps" -> InvertSteps(args[1], args[2], args[3], args[4])
           [] f = "BisectStep" -> BisectStep(args[1], args[2], args[3])
           [] f = "BisectSteps" -> BisectSteps(args[1], args[2])
           [] f = "InvertEntry" -> InvertEntry(args[1], args[2], args[3], args[4])
           [] f = "InvertIterate" ->
                 InvertIterate(args[1], args[2], args[3], args[4], args[5], args[6])
           [] f = "InvertLoop" -> InvertLoop(args[1], args[2], args[3], args[4])
           [] f = "invert_threshold_up" -> invert_threshold_up(args[1], args[2], args[3])
           [] f = "invert_threshold_down" -> invert_threshold_down(args[1], args[2], args[3])
           [] f = "find_min_count" -> one_sided_ks_find_min_count(args[1])
           [] f = "expected_iter" -> one_sided_ks_expected_iter(args[1], args[2], args[3])

(***************************************************************************)
(* one-sided-ks.c: the exported constants and their self-check.            *)
(***************************************************************************)
\* const double one_sided_ks_pair_le = 0;
one_sided_ks_pair_le == FOfDecimal(0, <<0>>, 0)

\* const double one_sided_ks_pair_eq = -0.6931471805599454;
one_sided_ks_pair_eq ==
    FOfDecimal(1, <<6, 9, 3, 1, 4, 7, 1, 8, 0, 5, 5, 9, 9, 4, 5, 4>>, 16)

\* const double one_sided_ks_fixed_le = -1.039720770839918;
one_sided_ks_fixed_le ==
    FOfDecimal(1, <<1, 0, 3, 9, 7, 2, 0, 7, 7, 0, 8, 3, 9, 9, 1, 8>>, 15)

\* const double one_sided_ks_fixed_eq = -1.7328679513998635;
one_sided_ks_fixed_eq ==
    FOfDecimal(1, <<1, 7, 3, 2, 8, 6, 7, 9, 5, 1, 3, 9, 9, 8, 6, 3, 5>>, 16)

\* const double one_sided_ks_class = -1.7328679513998635;
one_sided_ks_class ==
    FOfDecimal(1, <<1, 7, 3, 2, 8, 6, 7, 9, 5, 1, 3, 9, 9, 8, 6, 3, 5>>, 16)

\* the five constants of a build that converted every literal to the nearest
\* double, in the order check_constants reads them
CompiledConstants ==
    <<one_sided_ks_pair_le, one_sided_ks_pair_eq, one_sided_ks_fixed_le,
      one_sided_ks_fixed_eq, one_sided_ks_class>>

\* (uint64_t)EXPECTED of the five CHECK lines: 0 and the negated unsigned long
\* long literals
Expected ==
    << << >>,
       UNeg(BOfDecimal(<<4, 6, 1, 8, 9, 5, 3, 5, 0, 2, 5, 4, 1, 3, 3, 4, 0, 3, 2>>)),
       UNeg(BOfDecimal(<<4, 6, 1, 6, 0, 1, 0, 7, 3, 1, 6, 0, 6, 0, 0, 4, 8, 7, 6>>)),
       UNeg(BOfDecimal(<<4, 6, 1, 2, 8, 8, 9, 0, 7, 4, 2, 2, 1, 9, 2, 2, 1, 9, 6>>)),
       UNeg(BOfDecimal(<<4, 6, 1, 2, 8, 8, 9, 0, 7, 4, 2, 2, 1, 9, 2, 2, 1, 9, 6>>)) >>

\* a | b on ints
RECURSIVE IntOr(_, _)
IntOr(a, b) ==
    IF a = 0 THEN b
    ELSE IF b = 0 THEN a
    ELSE (IF a % 2 = 1 \/ b % 2 = 1 THEN 1 ELSE 0) + 2 * IntOr(a \div 2, b \div 2)

\* CHECK with 1 for 1 << index
CHECK_unshifted(r, idx, actual, expected) ==
    IF actual # expected THEN IntOr(r, 1) ELSE r

\* the body of CHECK(NAME, EXPECTED) at position index: the new ret
CHECK(r, idx, actual, expected) ==
    IF actual # expected THEN IntOr(r, 2 ^ idx) ELSE r

(***************************************************************************)
(* The calls a program makes.  A call is one step, from "idle" to "done"   *)
(* or "aborted"; check_constants is stepped CHECK by CHECK.                *)
(***************************************************************************)
vars ==
    <<codegen, libm_err, validity, constants, pc, op, arg_n, arg_min_count, arg_log_eps, arg_delta,
      arg_target, arg_up, arg_x, index, loop_i, low, high, ret>>

\* the code gcc 12.2 emits for x86-64: at -O0, -O1 and -Os; at -O2 and -O3;
\* with -march=native at -O1; at -O2 and -O3 (the sum contracted into
\* vfmadd); at -Os (contracted, mulsd's destination the second factor)
Codegens ==
    {[add |-> 1, mul |-> 2, contract |-> FALSE],
     [add |-> 2, mul |-> 2, contract |-> FALSE],
     [add |-> 1, mul |-> 1, contract |-> FALSE],
     [add |-> 1, mul |-> 1, contract |-> TRUE],
     [add |-> 1, mul |-> 2, contract |-> TRUE]}

\* the libm of the build, and two with the largest error that log_up and
\* log_down allow for (off by < libm_error_limit ULPs: the fourth double above
\* ln x, or the fourth below it), of opposite signs for neighbouring binades
LibmErrs ==
    {<< >>, <<libm_error_limit, -libm_error_limit>>,
     <<-libm_error_limit, libm_error_limit>>}

\* sample sizes and warm-up lengths: the small ones, 2^53 + 1 (the least
\* that (double)n rounds), and the largest uint64_t
MaxCount == 7

Counts == {BOfInt(k) : k \in 0..MaxCount} \cup {<<1, 0, 0, 2^8>>, UINT64_MAX}

\* ln 0.05
Ln05 == W64(\HC007, \HF742, \H7B73, \HE391)

\* log_eps: positive (the assertions fail), both zeros, and negative ones for
\* which the least valid min_count is 3 (-4.9e-324, the negative double
\* nearest 0), 6 (ln 0.05) and none at all (-infinity)
LogEpsilons == {One, PosZero, WithSign(1, << >>), prev(WithSign(1, << >>)), Ln05, NegInf}

NoValue == << >>

\* the call op(a_n, a_min_count, a_log_eps, a_delta) has returned r
Returned(o, a_n, a_min_count, a_log_eps, a_delta, r) ==
    /\ pc' = "done"
    /\ op' = o
    /\ arg_n' = a_n
    /\ arg_min_count' = a_min_count
    /\ arg_log_eps' = a_log_eps
    /\ arg_delta' = a_delta
    /\ ret' = r
    /\ UNCHANGED <<codegen, libm_err, validity, constants, arg_target, arg_up, arg_x, index, loop_i, low, high>>

\* the call op(a_n, a_min_count, a_log_eps, a_delta) has failed its assertion
Aborted(o, a_n, a_min_count, a_log_eps, a_delta) ==
    /\ pc' = "aborted"
    /\ op' = o
    /\ arg_n' = a_n
    /\ arg_min_count' = a_min_count
    /\ arg_log_eps' = a_log_eps
    /\ arg_delta' = a_delta
    /\ ret' = NoValue
    /\ UNCHANGED <<codegen, libm_err, validity, constants, arg_target, arg_up, arg_x, index, loop_i, low, high>>

\* a function that starts with assert(log_eps <= 0 && "log_eps must be
\* negative ..."): a build with assertions aborts when it fails, a build with
\* NDEBUG goes on to return r
Asserting(o, a_n, a_min_count, a_log_eps, a_delta, r) ==
    \/ Returned(o, a_n, a_min_count, a_log_eps, a_delta, r)
    \/ /\ ~FLeq(a_log_eps, PosZero)
       /\ Aborted(o, a_n, a_min_count, a_log_eps, a_delta)

Threshold_Call ==
    /\ pc = "idle"
    /\ \E a_n \in Counts, a_m \in Counts, a_le \in LogEpsilons :
          Asserting("threshold", a_n, a_m, a_le, NoValue,
                    Apply("threshold", <<a_n, a_m, a_le>>))

\* the fast function, which leaves min_count as it is, also with
\* log_eps = -1e308, for which f(n)^2 is above DBL_MAX
ThresholdFast_Call ==
    /\ pc = "idle"
    /\ \E a_n \in Counts, a_m \in Counts,
          a_le \in LogEpsilons \cup {W64(\HFFE1, \HCCF3, \H85EB, \HC8A0)} :
          Returned("threshold_fast", a_n, a_m, a_le, NoValue,
                   Apply("threshold_fast", <<a_n, a_m, a_le>>))

MinCountValid_Call ==
    /\ pc = "idle"
    /\ \E a_m \in Counts, a_le \in LogEpsilons :
          Asserting("min_count_valid", NoValue, a_m, a_le, NoValue,
                    Apply("min_count_valid", <<a_m, a_le>>))

FindMinCount_Call ==
    /\ pc = "idle"
    /\ \E a_le \in LogEpsilons :
          Asserting("find_min_count", NoValue, NoValue, a_le, NoValue,
                    Apply("find_min_count", <<a_le>>))

\* the caller takes the result; the program may call again
Return ==
    /\ pc = "done"
    /\ pc' = "idle"
    /\ op' = "none"
    /\ arg_n' = NoValue
    /\ arg_min_count' = NoValue
    /\ arg_log_eps' = NoValue
    /\ arg_delta' = NoValue
    /\ arg_target' = NoValue
    /\ arg_up' = FALSE
    /\ arg_x' = NoValue
    /\ index' = 0
    /\ loop_i' = 0
    /\ low' = NoValue
    /\ high' = NoValue
    /\ ret' = NoValue
    /\ UNCHANGED <<codegen, libm_err, validity, constants>>

Idle ==
    /\ pc = "idle"
    /\ op = "none"
    /\ arg_n = NoValue
    /\ arg_min_count = NoValue
    /\ arg_log_eps = NoValue
    /\ arg_delta = NoValue
    /\ arg_target = NoValue
    /\ arg_up = FALSE
    /\ arg_x = NoValue
    /\ index = 0
    /\ loop_i = 0
    /\ low = NoValue
    /\ high = NoValue
    /\ ret = NoValue

\* a build links the libm of the build; the two other libms are tried with the
\* code gcc emits when given no option
Init ==
    /\ \/ /\ codegen \in Codegens
          /\ libm_err = << >>
       \/ /\ codegen = [add |-> 1, mul |-> 2, contract |-> FALSE]
          /\ libm_err \in LibmErrs
    /\ validity = << >>
    /\ constants = CompiledConstants
    /\ Idle

Next ==
    \/ Threshold_Call
    \/ ThresholdFast_Call
    \/ MinCountValid_Call
    \/ FindMinCount_Call
    \/ Return

Spec == Init /\ [][Next]_vars

(***************************************************************************)
(* Calls of one_sided_ks_expected_iter.                                    *)
(***************************************************************************)
\* warm-up lengths: 0, invalid ones and the first valid ones for ln 0.05
MaxIterCount == 6

\* log_eps: positive, zero, and negative ones for which the least valid
\* min_count is 6 and none at all; delta: negative, both zeros, NaN, DBL_MIN
\* (2.2250738585072014e-308, the least positive normal double), a quarter and 1
ExpectedIter_Call ==
    /\ pc = "idle"
    /\ \E a_m \in {BOfInt(k) : k \in 0..MaxIterCount},
          a_le \in {One, PosZero, Ln05, NegInf},
          a_d \in {MinusOne, WithSign(1, << >>), PosZero, DefaultNaN,
                   W64(\H0010, 0, 0, 0), FOfDecimal(0, <<2, 5>>, 2), One} :
          Asserting("expected_iter", NoValue, a_m, a_le, a_d,
                    Apply("expected_iter", <<a_m, a_le, a_d>>))

NextIter ==
    \/ ExpectedIter_Call
    \/ Return

SpecIter == Init /\ [][NextIter]_vars

(***************************************************************************)
(* one_sided_ks_check_constants, CHECK by CHECK, in builds that stored the *)
(* constants exactly or off by one double.                                 *)
(***************************************************************************)
\* the arguments of the call in progress
arguments == <<arg_n, arg_min_count, arg_log_eps, arg_delta, arg_target, arg_up, arg_x>>

\* what a build may have stored for a constant c: c, or a neighbour of c
\* (for 0, the neighbour below is -0.0)
Builds ==
    LET Stored(c) == {c, next(c), prev(c)}
    IN  Stored(one_sided_ks_pair_le) \X Stored(one_sided_ks_pair_eq)
            \X Stored(one_sided_ks_fixed_le) \X Stored(one_sided_ks_fixed_eq)
            \X Stored(one_sided_ks_class)

InitConstants ==
    /\ codegen \in Codegens
    /\ libm_err = << >>
    /\ validity = << >>
    /\ constants \in Builds
    /\ Idle

\* int ret = 0; size_t index = 0;
CheckConstants_Enter ==
    /\ pc = "idle"
    /\ pc' = "check"
    /\ op' = "check_constants"
    /\ ret' = 0
    /\ index' = 0
    /\ UNCHANGED <<codegen, libm_err, validity, constants, arguments, loop_i, low, high>>

\* the next CHECK line: its assertion, then its comparison
CheckConstants_CHECK ==
    /\ pc = "check"
    /\ index < 5
    /\ IF index < 8 * 4 - 1
       THEN /\ ret' = CHECK(ret, index, constants[index + 1], Expected[index + 1])
            /\ index' = index + 1
            /\ pc' = pc
       ELSE /\ pc' = "aborted"
            /\ UNCHANGED <<ret, index>>
    /\ UNCHANGED <<codegen, libm_err, validity, constants, op, arguments, loop_i, low, high>>

\* return ret;
CheckConstants_Return ==
    /\ pc = "check"
    /\ index = 5
    /\ pc' = "done"
    /\ UNCHANGED <<codegen, libm_err, validity, constants, op, arguments, index, loop_i, low, high, ret>>

NextConstants ==
    \/ CheckConstants_Enter
    \/ CheckConstants_CHECK
    \/ CheckConstants_Return
    \/ Return

SpecConstants == InitConstants /\ [][NextConstants]_vars

(***************************************************************************)
(* one_sided_ks_find_min_count, iteration by iteration.                    *)
(***************************************************************************)
\* log_eps: zero, and negative ones for which the galloping loop ends with
\* i = 2 (-4.9e-324), 3 (ln 0.05), 7 (-100) and 63 (-2^62) and with no valid
\* power of two (-2^63 and -infinity)
FindLogEpsilons ==
    {PosZero, W64(\H8000, 0, 0, 1), Ln05, W64(\HC059, 0, 0, 0),
     W64(\HC3D0, 0, 0, 0), W64(\HC3E0, 0, 0, 0), NegInf}

\* the assertion and the early return, then i = 1
FindMinCountLoop_Enter ==
    /\ pc = "idle"
    /\ \E a_le \in FindLogEpsilons :
          IF FGeq(a_le, PosZero)
          THEN Asserting("find_min_count", NoValue, NoValue, a_le, NoValue, << >>)
          ELSE /\ pc' = "gallop"
               /\ op' = "find_min_count"
               /\ arg_log_eps' = a_le
               /\ loop_i' = 1
               /\ UNCHANGED <<codegen, libm_err, validity, constants, arg_n, arg_min_count, arg_delta,
                              arg_target, arg_up, arg_x, index, low, high, ret>>

\* an iteration of the galloping loop, or what follows the loop: the two early
\* returns, or low and high for the binary search
FindMinCountLoop_Gallop ==
    /\ pc = "gallop"
    /\ IF loop_i < 64 /\ ~Valid(UShl(<<1>>, loop_i), arg_log_eps, validity)
       THEN /\ loop_i' = loop_i + 1
            /\ UNCHANGED <<pc, low, high, ret>>
       ELSE IF loop_i = 1 \/ loop_i >= 64
       THEN /\ pc' = "done"
            /\ ret' = (IF loop_i = 1 THEN <<2>> ELSE UINT64_MAX)
            /\ UNCHANGED <<loop_i, low, high>>
       ELSE /\ pc' = "bisect"
            /\ low' = UShl(<<1>>, loop_i - 1)
            /\ high' = UShl(<<1>>, loop_i)
            /\ UNCHANGED <<loop_i, ret>>
    /\ UNCHANGED <<codegen, libm_err, validity, constants, op, arguments, index>>

\* an iteration of the binary search loop, or the return that follows it
FindMinCountLoop_Bisect ==
    /\ pc = "bisect"
    /\ IF BLt(UAdd(low, <<1>>), high)
       THEN /\ \E st \in {Apply("BisectStep", <<<<low, high>>, arg_log_eps, validity>>)} :
                  /\ low' = st[1]
                  /\ high' = st[2]
            /\ UNCHANGED <<pc, ret>>
       ELSE /\ pc' = "done"
            /\ ret' = high
            /\ UNCHANGED <<low, high>>
    /\ UNCHANGED <<codegen, libm_err, validity, constants, op, arguments, index, loop_i>>

NextFind ==
    \/ FindMinCountLoop_Enter
    \/ FindMinCountLoop_Gallop
    \/ FindMinCountLoop_Bisect
    \/ Return

SpecFind == Init /\ [][NextFind]_vars

(***************************************************************************)
(* The loops of one_sided_ks_find_min_count with any predicate in the      *)
(* place of one_sided_ks_min_count_valid.                                  *)
(***************************************************************************)
\* the predicates are those that hold of no m above MaxProbe
MaxProbe == 8

InitBisect ==
    /\ \/ /\ codegen \in Codegens
          /\ libm_err = << >>
          /\ validity = << >>
       \/ /\ codegen = [add |-> 1, mul |-> 2, contract |-> FALSE]
          /\ libm_err \in LibmErrs
          /\ validity = << >>
       \/ /\ codegen \in Codegens
          /\ libm_err = << >>
          /\ validity \in [1..MaxProbe -> BOOLEAN]
    /\ constants = CompiledConstants
    /\ Idle

SpecBisect == InitBisect /\ [][NextFind]_vars

(***************************************************************************)
(* float_bits, bits_float, next and prev on the 64-bit patterns around the *)
(* ends of the ranges of doubles.                                          *)
(***************************************************************************)
\* how far from the end of a range a pattern is taken
MaxOffset == 2

\* the patterns within MaxOffset of: +0.0 and -0.0 (and, below them, the
\* NaNs with every bit set), 1.0 and -1.0, the least normal double, +infinity
\* and -infinity (and, below them, DBL_MAX and -DBL_MAX)
Patterns ==
    {UAdd(b, BOfInt(k)) : b \in {PosZero, WithSign(1, << >>), One, MinusOne,
                                 W64(\H0010, 0, 0, 0), PosInf, NegInf},
                         k \in 0..MaxOffset}
        \cup {USub(b, BOfInt(k)) : b \in {PosZero, WithSign(1, << >>), One, MinusOne,
                                         W64(\H0010, 0, 0, 0), PosInf, NegInf},
                                 k \in 1..MaxOffset}

\* the call o(x) has returned r
BitsReturned(o, x, r) ==
    /\ pc' = "done"
    /\ op' = o
    /\ arg_x' = x
    /\ ret' = r
    /\ UNCHANGED <<codegen, libm_err, validity, constants, arg_n, arg_min_count, arg_log_eps, arg_delta,
                   arg_target, arg_up, index, loop_i, low, high>>

FloatBits_Call ==
    /\ pc = "idle"
    /\ \E x \in Patterns : BitsReturned("float_bits", x, float_bits(x))

BitsFloat_Call ==
    /\ pc = "idle"
    /\ \E bits \in Patterns : BitsReturned("bits_float", bits, bits_float(bits))

Next_Call ==
    /\ pc = "idle"
    /\ \E x \in Patterns : BitsReturned("next", x, next(x))

Prev_Call ==
    /\ pc = "idle"
    /\ \E x \in Patterns : BitsReturned("prev", x, prev(x))

NextBits ==
    \/ FloatBits_Call
    \/ BitsFloat_Call
    \/ Next_Call
    \/ Prev_Call
    \/ Return

SpecBits == Init /\ [][NextBits]_vars

(***************************************************************************)
(* invert_threshold, iteration by iteration, as invert_threshold_up and    *)
(* invert_threshold_down call it.                                          *)
(***************************************************************************)
\* the call, up to the loop; target is above the first threshold (2), between
\* the thresholds (a quarter), below the ones threshold_down computes (the
\* least normal double), or negative
Invert_Enter ==
    /\ pc = "idle"
    /\ \E a_t \in {W64(\H4000, 0, 0, 0), W64(\H3FD0, 0, 0, 0), W64(\H0010, 0, 0, 0), MinusOne},
          a_up \in BOOLEAN :
          \E e \in {Apply("InvertEntry", <<a_t, a_up, <<6>>, Ln05>>)} :
              /\ op' = (IF a_up THEN "invert_threshold_up" ELSE "invert_threshold_down")
              /\ arg_target' = a_t
              /\ arg_min_count' = <<6>>
              /\ arg_log_eps' = Ln05
              /\ arg_up' = a_up
              /\ IF e[1]
                 THEN /\ pc' = "done"
                      /\ ret' = e[2]
                      /\ UNCHANGED <<loop_i, low, high>>
                 ELSE /\ pc' = "invert"
                      /\ loop_i' = 0
                      /\ low' = e[2]
                      /\ high' = e[3]
                      /\ UNCHANGED ret
    /\ UNCHANGED <<codegen, libm_err, validity, constants, arg_n, arg_delta, arg_x, index>>

\* an iteration of the loop, or the return that follows it
Invert_Iterate ==
    /\ pc = "invert"
    /\ IF loop_i >= 64
       THEN /\ pc' = "done"
            /\ ret' = (IF arg_up THEN high ELSE low)
            /\ UNCHANGED <<loop_i, low, high>>
       ELSE \E st \in {Apply("InvertIterate",
                             <<low, high, arg_target, arg_up, arg_min_count, arg_log_eps>>)} :
                IF st[3]
                THEN /\ pc' = "done"
                     /\ ret' = st[1]
                     /\ UNCHANGED <<loop_i, low, high>>
                ELSE /\ loop_i' = loop_i + 1
                     /\ low' = st[1]
                     /\ high' = st[2]
                     /\ UNCHANGED <<pc, ret>>
    /\ UNCHANGED <<codegen, libm_err, validity, constants, op, arguments, index>>

NextInvert ==
    \/ Invert_Enter
    \/ Invert_Iterate
    \/ Return

SpecInvert == Init /\ [][NextInvert]_vars

(***************************************************************************)
(* Properties of the threshold functions and of find_min_count.            *)
(***************************************************************************)
\* C1: before the warm-up is over (n < min_count) and for log_eps <= 0,
\* one_sided_ks_threshold and one_sided_ks_threshold_fast return +infinity.
PreWarmupInfinite ==
    (/\ pc = "done"
     /\ op \in {"threshold", "threshold_fast"}
     /\ FLeq(arg_log_eps, PosZero)
     /\ BLt(arg_n, arg_min_count)) => ret = PosInf

\* the safe function has returned +infinity for an n below a min_count that is
\* not valid, and that it replaced
PreWarmupReplaced ==
    /\ pc = "done"
    /\ op = "threshold"
    /\ FLess(arg_log_eps, PosZero)
    /\ BLt(arg_n, arg_min_count)
    /\ one_sided_ks_min_count_valid(arg_min_count, arg_log_eps) = 0
    /\ BLt(arg_min_count, one_sided_ks_find_min_count(arg_log_eps))
    /\ ret = PosInf

\* C2, as the spec states it: for log_eps >= 0 the threshold functions return
\* -infinity, whatever n and min_count.
DegenerateAlwaysMinusInfinity ==
    (/\ pc = "done"
     /\ op \in {"threshold", "threshold_fast"}
     /\ FGeq(arg_log_eps, PosZero)) => ret = NegInf

\* C2, amended: for log_eps >= 0 the threshold functions return -infinity when
\* n >= min_count and +infinity when n < min_count (a call of the safe function
\* with log_eps > 0 returns at all only when its assertion is compiled out).
DegenerateConfidence ==
    (/\ pc = "done"
     /\ op \in {"threshold", "threshold_fast"}
     /\ FGeq(arg_log_eps, PosZero))
        => ret = (IF BLt(arg_n, arg_min_count) THEN PosInf ELSE NegInf)

\* each function has returned -infinity for log_eps = 0 and n >= min_count > 0
DegenerateRejects ==
    /\ pc = "done"
    /\ op \in {"threshold", "threshold_fast"}
    /\ arg_log_eps \in {PosZero, WithSign(1, << >>)}
    /\ BLe(arg_min_count, arg_n)
    /\ arg_min_count # << >>
    /\ ret = NegInf

\* C3: for log_eps <= 0 the safe function returns what the fast one returns for
\* the same min_count when it is valid, and for find_min_count(log_eps) when
\* it is not.
SafeIsFastWithValidMinCount ==
    (/\ pc = "done"
     /\ op = "threshold"
     /\ FLeq(arg_log_eps, PosZero))
        => ret = (IF one_sided_ks_min_count_valid(arg_min_count, arg_log_eps) # 0
                  THEN one_sided_ks_threshold_fast(arg_n, arg_min_count, arg_log_eps)
                  ELSE one_sided_ks_threshold_fast(
                           arg_n, one_sided_ks_find_min_count(arg_log_eps), arg_log_eps))

\* the safe function has returned a finite threshold for a min_count that is not
\* valid, where the fast function returns another one for that min_count
SafeReplacedMinCount ==
    /\ pc = "done"
    /\ op = "threshold"
    /\ FLess(arg_log_eps, PosZero)
    /\ one_sided_ks_min_count_valid(arg_min_count, arg_log_eps) = 0
    /\ ~IsNaN(ret) /\ ~IsInf(ret)
    /\ ret # one_sided_ks_threshold_fast(arg_n, arg_min_count, arg_log_eps)

\* C4, as the spec states it: for log_eps < 0 the m find_min_count returns is
\* valid and m - 1 is not, unless m <= 2.
FindMinCountMinimalUnlessSmall ==
    (/\ pc = "done"
     /\ op = "find_min_count"
     /\ FLess(arg_log_eps, PosZero))
        => \/ BLe(ret, <<2>>)
           \/ /\ one_sided_ks_min_count_valid(ret, arg_log_eps) # 0
              /\ one_sided_ks_min_count_valid(USub(ret, <<1>>), arg_log_eps) = 0

\* C4, amended: for log_eps < 0 the m find_min_count returns is SIZE_MAX, when
\* none of 2^1 .. 2^63 is valid, or else m is valid and m - 1 is not, unless
\* m <= 2.
FindMinCountMinimal ==
    (/\ pc = "done"
     /\ op = "find_min_count"
     /\ FLess(arg_log_eps, PosZero))
        => \/ BLe(ret, <<2>>)
           \/ /\ ret = UINT64_MAX
              /\ \A k \in 1..63 :
                    one_sided_ks_min_count_valid(UShl(<<1>>, k), arg_log_eps) = 0
           \/ /\ ret # UINT64_MAX
              /\ one_sided_ks_min_count_valid(ret, arg_log_eps) # 0
              /\ one_sided_ks_min_count_valid(USub(ret, <<1>>), arg_log_eps) = 0

\* find_min_count has returned a valid m strictly inside the interval its
\* binary search started with
FindMinCountBisected ==
    /\ pc = "done"
    /\ op = "find_min_count"
    /\ arg_log_eps = Ln05
    /\ ret = <<6>>
    /\ one_sided_ks_min_count_valid(ret, arg_log_eps) # 0
    /\ one_sided_ks_min_count_valid(<<5>>, arg_log_eps) = 0

(***************************************************************************)
(* The real function the thresholds bound: f(n) / n with                   *)
(* f(n)^2 = (n + 1)(2 ln n + ln b) and ln b = -log_eps - ln(min_count - 1),*)
(* in fixed point with LnPrec fractional bits.                             *)
(***************************************************************************)
\* for a uint64_t k >= 1: the least double >= k (above), the greatest double
\* <= k (not above); (double)k is k rounded to nearest
DoubleNextTo(k, above) ==
    LET d == U64ToDouble(k)
    IN  IF BBitLen(k) <= 53 \/ BShl(FMant(d), FQ(d)) = k THEN d
        ELSE IF above THEN (IF BLt(k, BShl(FMant(d), FQ(d))) THEN d ELSE next(d))
        ELSE (IF BLt(BShl(FMant(d), FQ(d)), k) THEN d ELSE prev(d))

\* an upper bound of f(n)^2 * 2^LnPrec, for n >= min_count >= 3 and a finite
\* log_eps < 0: slack is more than the error of LnFixed, in units of
\* 2^-LnPrec, and minus is -log_eps * 2^LnPrec rounded up
ExactSquareUpper(n, min_count, log_eps) ==
    LET slack  == BShl(<<1>>, 16)
        minus  == IF FQ(log_eps) + LnPrec >= 0
                  THEN BShl(FMant(log_eps), FQ(log_eps) + LnPrec)
                  ELSE BAdd(BShr(FMant(log_eps), -(FQ(log_eps) + LnPrec)), <<1>>)
        ln_n   == BAdd(LnFixed(DoubleNextTo(n, TRUE))[2], slack)
        ln_m1  == BSub(LnFixed(DoubleNextTo(USub(min_count, <<1>>), FALSE))[2], slack)
        ln_b   == BSub(BAdd(BMulSmall(ln_n, 2), minus), ln_m1)
    IN  BMul(BAdd(n, <<1>>), ln_b)

\* (t * n)^2 * 2^LnPrec rounded down, for a finite double t >= 0
SquareLower(t, n) ==
    LET sq == BMul(BMul(FMant(t), FMant(t)), BMul(n, n))
    IN  IF 2 * FQ(t) + LnPrec >= 0 THEN BShl(sq, 2 * FQ(t) + LnPrec)
        ELSE BShr(sq, -(2 * FQ(t) + LnPrec))

\* C5, as the spec states it: for every n >= min_count >= 3 and log_eps < 0
\* the threshold returned, t, is at least sqrt((n + 1)(2 ln n + ln b)) / n with
\* ln b = -log_eps - ln(min_count - 1), for every error of libm's log within
\* libm_error_limit: t is +infinity, or log_eps is finite and t is a finite
\* double >= 0 with (t n)^2 >= (n + 1)(2 ln n + ln b).
ThresholdAlwaysUpperBound ==
    (/\ pc = "done"
     /\ op \in {"threshold_fast", "threshold"}
     /\ BLe(<<3>>, arg_min_count)
     /\ BLe(arg_min_count, arg_n)
     /\ FLess(arg_log_eps, PosZero))
        => /\ ~IsNaN(ret)
           /\ FSign(ret) = 0
           /\ \/ IsInf(ret)
              \/ /\ ~IsInf(arg_log_eps)
                 /\ BLe(ExactSquareUpper(arg_n, arg_min_count, arg_log_eps),
                        SquareLower(ret, arg_n))

\* C5, amended: let m be the min_count the computation uses: the one given,
\* or find_min_count(log_eps) when the safe function is given one that is not
\* valid.  For every n >= m >= 3 and every finite log_eps < 0 with
\* (n + 1)(2 ln n + ln b) < 2^1023 the threshold returned is a finite double
\* >= 0 and at least sqrt((n + 1)(2 ln n + ln b)) / n with
\* ln b = -log_eps - ln(m - 1), for every error of libm's log within
\* libm_error_limit; for log_eps = -infinity and n >= min_count >= 3 the fast
\* function returns a NaN.
ThresholdIsUpperBound ==
    LET m == IF op = "threshold"
                /\ one_sided_ks_min_count_valid(arg_min_count, arg_log_eps) = 0
             THEN one_sided_ks_find_min_count(arg_log_eps)
             ELSE arg_min_count
    IN  (/\ pc = "done"
         /\ op \in {"threshold_fast", "threshold"}
         /\ FLess(arg_log_eps, PosZero))
            => /\ (/\ BLe(<<3>>, m)
                   /\ BLe(m, arg_n)
                   /\ ~IsInf(arg_log_eps)
                   /\ BBitLen(ExactSquareUpper(arg_n, m, arg_log_eps)) <= 1023 + LnPrec)
                      => /\ ~IsNaN(ret) /\ ~IsInf(ret) /\ FSign(ret) = 0
                         /\ BLe(ExactSquareUpper(arg_n, m, arg_log_eps),
                                SquareLower(ret, arg_n))
               /\ (/\ op = "threshold_fast"
                   /\ BLe(<<3>>, arg_min_count)
                   /\ BLe(arg_min_count, arg_n)
                   /\ IsInf(arg_log_eps))
                      => IsNaN(ret)

\* a threshold above the exact value, and within 6 doubles of it, was returned
\* while libm's log was off by the largest error against the bound: log(7)
\* the fourth double below ln 7, so that log_up(n) is the first double above
\* ln n, and log(3) the fourth double above ln 3, so that
\* log_down(min_count - 1) is the first double below ln(min_count - 1)
ThresholdJustAbove ==
    /\ pc = "done"
    /\ op = "threshold_fast"
    /\ libm_err = <<libm_error_limit, -libm_error_limit>>
    /\ arg_n = <<7>>
    /\ arg_min_count = <<4>>
    /\ arg_log_eps = Ln05
    /\ BLe(ExactSquareUpper(arg_n, arg_min_count, arg_log_eps), SquareLower(ret, arg_n))
    /\ BLt(SquareLower(prev_k(ret, <<6>>), arg_n),
           ExactSquareUpper(arg_n, arg_min_count, arg_log_eps))

(***************************************************************************)
(* Properties of one_sided_ks_expected_iter.                               *)
(***************************************************************************)
\* C6: for log_eps < 0, one_sided_ks_expected_iter returns DBL_MAX whenever
\* delta <= 0 or min_count = 0, valid min_count or not.
DegenerateAlternative ==
    (/\ pc = "done"
     /\ op = "expected_iter"
     /\ FLess(arg_log_eps, PosZero)
     /\ arg_min_count = << >> \/ FLeq(arg_delta, PosZero)) => ret = DBL_MAX

\* DBL_MAX was returned for a delta <= 0 with a min_count > 0 that is not valid
DegenerateWithInvalidMinCount ==
    /\ pc = "done"
    /\ op = "expected_iter"
    /\ FLess(arg_log_eps, PosZero)
    /\ FLeq(arg_delta, PosZero)
    /\ arg_min_count # << >>
    /\ one_sided_ks_min_count_valid(arg_min_count, arg_log_eps) = 0
    /\ ret = DBL_MAX

\* C7, as the spec states it: for log_eps < 0 and a min_count that is not valid
\* for it, one_sided_ks_expected_iter returns a negative value, for every delta.
InvalidMinCountAlwaysNegative ==
    (/\ pc = "done"
     /\ op = "expected_iter"
     /\ FLess(arg_log_eps, PosZero)
     /\ one_sided_ks_min_count_valid(arg_min_count, arg_log_eps) = 0)
        => FLess(ret, PosZero)

\* C7, amended: for log_eps < 0 and a min_count that is not valid for it,
\* one_sided_ks_expected_iter returns -1, unless min_count = 0 or delta <= 0,
\* when it returns DBL_MAX.
InvalidMinCountNegative ==
    (/\ pc = "done"
     /\ op = "expected_iter"
     /\ FLess(arg_log_eps, PosZero)
     /\ one_sided_ks_min_count_valid(arg_min_count, arg_log_eps) = 0)
        => ret = (IF arg_min_count = << >> \/ FLeq(arg_delta, PosZero)
                  THEN DBL_MAX ELSE MinusOne)

\* -1 was returned for a min_count > 0 that is not valid and a delta > 0
InvalidMinCountReported ==
    /\ pc = "done"
    /\ op = "expected_iter"
    /\ FLess(arg_log_eps, PosZero)
    /\ FLess(PosZero, arg_delta)
    /\ arg_min_count # << >>
    /\ one_sided_ks_min_count_valid(arg_min_count, arg_log_eps) = 0
    /\ ret = MinusOne

(***************************************************************************)
(* Properties of one_sided_ks_check_constants.                             *)
(***************************************************************************)
\* C8: check_constants returns a mask whose bit k is set exactly when the k-th
\* constant of pair_le, pair_eq, fixed_le, fixed_eq, class is not stored with
\* the expected pattern; it returns 0 exactly when all five are, as in a build
\* that converts the literals to the nearest doubles.
MaskOfWrongConstants ==
    (pc = "done" /\ op = "check_constants")
        => /\ \A k \in 0..4 :
                  ((ret \div 2 ^ k) % 2 = 1) <=> (constants[k + 1] # Expected[k + 1])
           /\ ret < 2 ^ 5
           /\ (ret = 0) <=> (constants = Expected)
           /\ (constants = CompiledConstants) => (ret = 0)

\* check_constants has returned 2^1 + 2^4 in a build with pair_eq and class
\* off by one double
MaskOfTwoWrongConstants ==
    /\ pc = "done"
    /\ op = "check_constants"
    /\ constants[2] # Expected[2]
    /\ constants[5] # Expected[5]
    /\ ret = 2 ^ 1 + 2 ^ 4

\* C9: the mask uses the layout of the header: bit 0 for pair_le, bit 1 for
\* pair_eq, bit 2 for class, bit 3 for the internal constant, and no other bit.
HeaderLayout ==
    (pc = "done" /\ op = "check_constants")
        => /\ (ret % 2 = 1) <=> (constants[1] # Expected[1])
           /\ ((ret \div 2) % 2 = 1) <=> (constants[2] # Expected[2])
           /\ ((ret \div 4) % 2 = 1) <=> (constants[5] # Expected[5])
           /\ ret < 2 ^ 4

\* C10, as the spec states it: the pattern the pair_eq constant is compared
\* with, the literal -4618953502541334032 modulo 2^64, is 0xBFE62E42FEFA39EF:
\* after the second CHECK, bit 1 of ret is clear exactly when that pattern is
\* stored.
PairEqExpected39EF ==
    (pc = "check" /\ op = "check_constants" /\ index = 2)
        => (((ret \div 2) % 2 = 0)
               <=> (constants[2] = W64(\HBFE6, \H2E42, \HFEFA, \H39EF)))

\* C10, amended: the pattern the pair_eq constant is compared with, the literal
\* -4618953502541334032 modulo 2^64, is 0xBFE62E42FEFA39F0.
PairEqExpected39F0 ==
    (pc = "check" /\ op = "check_constants" /\ index = 2)
        => (((ret \div 2) % 2 = 0)
               <=> (constants[2] = W64(\HBFE6, \H2E42, \HFEFA, \H39F0)))

\* the second CHECK has found the pair_eq constant of a build that converted
\* -0.6931471805599454 to the nearest double to be as expected
PairEqCompiledAsExpected ==
    /\ pc = "check"
    /\ op = "check_constants"
    /\ index = 2
    /\ constants[2] = one_sided_ks_pair_eq
    /\ constants[2] = W64(\HBFE6, \H2E42, \HFEFA, \H39F0)
    /\ (ret \div 2) % 2 = 0

(***************************************************************************)
(* Properties of the loops of one_sided_ks_find_min_count.                 *)
(***************************************************************************)
\* C11: once the galloping loop has stopped at the first valid 2^i, with
\* 2 <= i <= 63, the binary search starts from low = 2^(i - 1), high = 2^i,
\* keeps low invalid and high valid in every iteration, makes high - low
\* strictly smaller in every iteration, and ends with high = low + 1, which
\* find_min_count returns; with one_sided_ks_min_count_valid for the
\* predicate and with any other, monotone or not.
BisectionKeepsBracket ==
    /\ [](pc = "bisect"
            => /\ loop_i \in 2..63
               /\ BLe(UShl(<<1>>, loop_i - 1), low)
               /\ BLt(low, high)
               /\ BLe(high, UShl(<<1>>, loop_i))
               /\ ~Valid(low, arg_log_eps, validity)
               /\ Valid(high, arg_log_eps, validity))
    /\ [][/\ (pc = "gallop" /\ pc' = "bisect")
                => /\ low' = UShl(<<1>>, loop_i - 1)
                   /\ high' = UShl(<<1>>, loop_i)
          /\ (pc = "bisect" /\ pc' = "bisect")
                => BLt(USub(high', low'), USub(high, low))
          /\ (pc = "bisect" /\ pc' = "done")
                => /\ high = UAdd(low, <<1>>)
                   /\ ret' = high]_vars

\* the binary search over a predicate that is not monotone (m = 5 is valid,
\* m = 6 is not) has ended with low = 6 and high = 7, and 7 was returned
BisectionOverNonMonotone ==
    /\ pc = "done"
    /\ op = "find_min_count"
    /\ validity # << >>
    /\ validity[5] /\ ~validity[6] /\ validity[7] /\ validity[8]
    /\ loop_i = 3
    /\ low = <<6>>
    /\ high = <<7>>
    /\ ret = high

\* the binary search with one_sided_ks_min_count_valid that started from
\* low = 2^62 and high = 2^63 has ended strictly inside that interval, with
\* high = low + 1
BisectionFromWidestBracket ==
    /\ pc = "done"
    /\ op = "find_min_count"
    /\ validity = << >>
    /\ loop_i = 63
    /\ BLt(UShl(<<1>>, 62), low)
    /\ high = UAdd(low, <<1>>)
    /\ BLt(high, Two63)
    /\ ret = high

\* C14: for log_eps < 0, find_min_count returns SIZE_MAX, exactly when none of
\* 2^1 .. 2^63 is valid, or a value in 3 .. 2^63; min_count_valid rejects 0, 1
\* and 2, so that the galloping loop never stops at i = 1 and 2 is never
\* returned; 0 is returned only for log_eps >= 0.
FindMinCountRange ==
    /\ (pc = "done" /\ op = "find_min_count")
          => IF FLess(arg_log_eps, PosZero)
             THEN /\ \A m \in 0..2 :
                        one_sided_ks_min_count_valid(BOfInt(m), arg_log_eps) = 0
                  /\ (ret = UINT64_MAX)
                        <=> (\A k \in 1..63 :
                                one_sided_ks_min_count_valid(UShl(<<1>>, k), arg_log_eps) = 0)
                  /\ ret = UINT64_MAX \/ (BLe(<<3>>, ret) /\ BLe(ret, Two63))
             ELSE ret = << >>
    /\ (pc = "gallop" /\ loop_i = 1)
          => one_sided_ks_min_count_valid(UShl(<<1>>, loop_i), arg_log_eps) = 0

\* find_min_count has returned SIZE_MAX for a finite log_eps, after the
\* galloping loop found none of 2^1 .. 2^63 valid
FindMinCountSaturated ==
    /\ pc = "done"
    /\ op = "find_min_count"
    /\ arg_log_eps = FNeg(U64ToDouble(Two63))
    /\ arg_log_eps = W64(\HC3E0, 0, 0, 0)
    /\ loop_i = 64
    /\ ret = UINT64_MAX

(***************************************************************************)
(* Properties of the encoding of doubles as ordered 64-bit keys.           *)
(***************************************************************************)
\* C13: float_bits and bits_float leave the sign bit alone and flip the other
\* 63 bits of a pattern with the sign bit set; each undoes the other, and
\* itself, on every pattern.  For every finite x other than DBL_MAX, next(x) is
\* the double that follows x in value order: one step up in magnitude for
\* x >= +0.0, +0.0 for -0.0, and one step down in magnitude for x < 0; and
\* prev(next(x)) = x.
BitKeyOrder ==
    /\ (pc = "done" /\ op \in {"float_bits", "bits_float"})
          => /\ ret = (IF FSign(arg_x) = 1
                       THEN WithSign(1, BSub(FMag(UINT64_MAX), FMag(arg_x)))
                       ELSE arg_x)
             /\ bits_float(ret) = arg_x
             /\ float_bits(ret) = arg_x
    /\ (pc = "done" /\ op = "next" /\ ~IsNaN(arg_x) /\ ~IsInf(arg_x) /\ arg_x # DBL_MAX)
          => /\ ret = (IF FSign(arg_x) = 0 THEN BAdd(arg_x, <<1>>)
                       ELSE IF FMag(arg_x) = << >> THEN PosZero
                       ELSE WithSign(1, BSub(FMag(arg_x), <<1>>)))
             /\ FLess(arg_x, ret) \/ (IsZero(arg_x) /\ IsZero(ret))
             /\ prev(ret) = arg_x

\* next has stepped from -0.0 to +0.0, or from +0.0 to the least denormal
NextAcrossZero ==
    /\ pc = "done"
    /\ op = "next"
    /\ \/ arg_x = WithSign(1, << >>) /\ ret = PosZero
       \/ arg_x = PosZero /\ ret = <<1>>
    /\ prev(ret) = arg_x

(***************************************************************************)
(* Properties of the loop of invert_threshold.                             *)
(***************************************************************************)
\* C12: when neither early return of invert_threshold fires, threshold(low) >
\* target and threshold(high) < target hold in every iteration; after the 64
\* iterations, none of which returned, the keys of low and high differ by 1,
\* and the up inversion returns high, the down inversion low.
InversionKeepsBracket ==
    /\ pc = "invert"
          => LET lb == IF arg_up THEN log_b_up(arg_min_count, arg_log_eps)
                       ELSE log_b_down(arg_min_count, arg_log_eps)
             IN  /\ FLess(arg_target, Threshold(arg_up, low, lb))
                 /\ FLess(Threshold(arg_up, high, lb), arg_target)
    /\ (pc = "done" /\ op \in {"invert_threshold_up", "invert_threshold_down"}
            /\ loop_i = 64)
          => /\ float_bits(high) = UAdd(float_bits(low), <<1>>)
             /\ ret = (IF arg_up THEN high ELSE low)
====
